---- MODULE Spec2Model ----
(***************************************************************************)
(* kuha: an OAI-PMH repository.  Model of the protocol request handlers    *)
(* of kuha/oai/views.py and of the protocol errors of kuha/exception.py.   *)
(*                                                                         *)
(* Python values are modelled as records [k, s, n, j]: k is the Python     *)
(* type ("str", "None", "int"), s the text, n the number written in the    *)
(* text when the text is a datestamp (s is then the datestamp's layout),   *)
(* and j the members written in the text when the text is a JSON object.   *)
(* Datetimes are integers: seconds since the first day of the model.       *)
(***************************************************************************)
EXTENDS Integers, Sequences, FiniteSets, TLC

VARIABLES
    items,      \* Item rows: identifier -> [state, sets]
    formats,    \* Format rows: prefix -> "absent" | "live" | "deleted"
    records,    \* Record rows: <<identifier, prefix>> -> [state, datestamp]
    sets,       \* Set rows: the set of set specs of the store
    datestamp,  \* the Datestamp row: a datetime, or NoDatestamp
    settings,   \* request.registry.settings
    clock,      \* the wall clock read by datestamp_now()
    pc,         \* "idle" | "handling": position of the request in oai_view
    request,    \* the request in flight: [params, time, replayed]
    response,   \* the last answer: the request's params, what it returned
    issued,     \* the token the last answer handed out: [token, time]
    call,       \* a pending call of a pure function: [fn, ...arguments]
    ret         \* the result of that call

vars == <<items, formats, records, sets, datestamp, settings, clock,
          pc, request, response, issued, call, ret>>

store == <<items, formats, records, sets, datestamp>>

(***************************************************************************)
(* Bounds of the model.                                                    *)
(***************************************************************************)
MaxParams == 3      \* longest parameter list given to _check_params
MaxDay == 1         \* datestamps written by clients name days 0..MaxDay
MaxClock == 2       \* the clock runs for MaxClock seconds from ClockStart
MaxRecords == 3     \* most records of one metadata prefix in the store
MaxLimit == 2       \* largest item_list_limit of the settings

\* A value bound to a name: Op applied to the value.
With(value, Op(_)) == Op(value)

(***************************************************************************)
(* Python values.                                                          *)
(***************************************************************************)
None == [k |-> "None", s |-> "", n |-> 0, j |-> <<>>]
Str(text) == [k |-> "str", s |-> text, n |-> 0, j |-> <<>>]
PyInt(number) == [k |-> "int", s |-> "", n |-> number, j |-> <<>>]

\* Layouts of the two datestamp granularities of OAI-PMH.
DayLayout == "YYYY-MM-DD"
SecLayout == "YYYY-MM-DDThh:mm:ssZ"
\* datetime.time(23, 59, 59), in seconds of the day.
EndOfDay == 86399
DaySeconds == EndOfDay + 1

\* The text of day `day` in day granularity, and of the instant `t` in
\* seconds granularity.
DayStr(day) == [k |-> "str", s |-> DayLayout, n |-> day, j |-> <<>>]
SecStr(t) == [k |-> "str", s |-> SecLayout, n |-> t, j |-> <<>>]

\* A text holding a character that is illegal in XML.
IllegalText == "\\x00"

(***************************************************************************)
(* kuha/util.py (not among the sources; modelled from the specification).  *)
(***************************************************************************)
\* contains_illegal_chars(value)
contains_illegal_chars(value) == value.s = IllegalText

\* parse_date(string, time): <<datetime, granularity>>, or ValueError.
\* `time` is the time of day given to a date of day granularity.
parse_date(string, time) ==
    IF string.k = "str" /\ string.s = DayLayout
    THEN [ok |-> TRUE, date |-> string.n * DaySeconds + time,
          granularity |-> DayLayout]
    ELSE IF string.k = "str" /\ string.s = SecLayout
    THEN [ok |-> TRUE, date |-> string.n, granularity |-> SecLayout]
    ELSE [ok |-> FALSE, date |-> 0, granularity |-> "ValueError"]

\* format_datestamp(datetime): the text of a datetime, seconds granularity.
format_datestamp(datetime) == SecStr(datetime)

\* datestamp_now(): the current time with second precision.
datestamp_now == clock

(***************************************************************************)
(* kuha/exception.py: the protocol errors.                                 *)
(***************************************************************************)
\* An exception object: its class and the arguments of its message.
Exc(cls, msg, a1, a2) == [cls |-> cls, msg |-> msg, a1 |-> a1, a2 |-> a2]
NoExc == Exc("", "", "", "")

BadArgument(msg, name) == Exc("BadArgument", msg, name, "")
InvalidResumptionToken == Exc("InvalidResumptionToken", "", "", "")
ExpiredResumptionToken == Exc("ExpiredResumptionToken", "", "", "")
InvalidVerb == Exc("InvalidVerb", "", "", "")
RepeatedVerb == Exc("RepeatedVerb", "", "", "")
MissingVerb == Exc("MissingVerb", "", "", "")
\* '{0}'.format(value): the text a value is written as in a message.
Text(value) == IF value.k = "None" THEN "None" ELSE value.s
UnsupportedMetadataFormat(prefix) ==
    Exc("UnsupportedMetadataFormat", "", Text(prefix), "")
UnavailableMetadataFormat(prefix, identifier) ==
    Exc("UnavailableMetadataFormat", "", Text(prefix), Text(identifier))
IdDoesNotExist(identifier) ==
    Exc("IdDoesNotExist", "", Text(identifier), "")
NoRecordsMatch == Exc("NoRecordsMatch", "", "", "")
NoMetadataFormats(identifier) ==
    Exc("NoMetadataFormats", "", Text(identifier), "")
NoSetHierarchy == Exc("NoSetHierarchy", "", "", "")
\* An assert statement that failed: not an OaiException.
AssertionError(msg) == Exc("AssertionError", msg, "", "")

\* OaiException.code() of each class.
code(error) ==
    CASE error.cls = "BadArgument" -> "badArgument"
      [] error.cls \in {"InvalidResumptionToken", "ExpiredResumptionToken"}
            -> "badResumptionToken"
      [] error.cls \in {"InvalidVerb", "RepeatedVerb", "MissingVerb"}
            -> "badVerb"
      [] error.cls \in {"UnsupportedMetadataFormat",
                        "UnavailableMetadataFormat"}
            -> "cannotDisseminateFormat"
      [] error.cls = "IdDoesNotExist" -> "idDoesNotExist"
      [] error.cls = "NoRecordsMatch" -> "noRecordsMatch"
      [] error.cls = "NoMetadataFormats" -> "noMetadataFormats"
      [] error.cls = "NoSetHierarchy" -> "noSetHierarchy"
      [] OTHER -> "NotImplementedError"

\* OaiException.message() of the classes whose message is fixed.
message(error) ==
    CASE error.cls = "BadArgument" -> error.msg
      [] error.cls = "InvalidResumptionToken" -> "Invalid resumption token"
      [] error.cls = "ExpiredResumptionToken"
            -> "Resumption token has expired."
      [] error.cls = "InvalidVerb" -> "Invalid verb"
      [] error.cls = "RepeatedVerb" -> "Repeated verb"
      [] error.cls = "MissingVerb" -> "Missing verb"
      [] error.cls = "NoRecordsMatch" -> "No matching records found."
      [] error.cls = "NoSetHierarchy"
            -> "This repository does not support sets."
      [] OTHER -> error.cls

\* Whether an exception is an OaiException (caught by `except OaiException`).
IsOaiException(error) == error.cls \notin {"", "AssertionError"}

(***************************************************************************)
(* Request parameters: a webob MultiDict (multi = TRUE, it has getall and  *)
(* may repeat a name) or a plain dict (a decoded token).  `pairs` is the   *)
(* sequence of <<name, value>> pairs in iteration order.                   *)
(***************************************************************************)
MultiDict(pairs) == [multi |-> TRUE, pairs |-> pairs]
Dict(pairs) == [multi |-> FALSE, pairs |-> pairs]

\* name in params
Has(params, name) ==
    \E i \in 1..Len(params.pairs) : params.pairs[i][1] = name

\* params.getall(name)
getall(params, name) ==
    SelectSeq(params.pairs, LAMBDA pair : pair[1] = name)

\* params.get(name): the value of the last pair of that name, or None.
Get(params, name) ==
    LET all == getall(params, name)
    IN IF all = <<>> THEN None ELSE all[Len(all)][2]

\* Whether every name occurs once.
UniqueNames(pairs) ==
    \A i, j \in 1..Len(pairs) : pairs[i][1] = pairs[j][1] => i = j

\* Whether x is an element of a Python list.
InList(x, list) == \E i \in 1..Len(list) : list[i] = x

(***************************************************************************)
(* views.py: _check_params(params, required, allowed).                     *)
(* The result is NoExc when the function returns, else what it raises.     *)
(***************************************************************************)
\* One pass of the loop `for name in params` (lines 254-272).
CheckName(params, required, allowed, name) ==
    LET is_expected == (name = "verb") \/ InList(name, allowed)
                         \/ InList(name, required)
        is_repeated == params.multi /\ Len(getall(params, name)) > 1
        value == Get(params, name)
    IN IF ~is_expected THEN BadArgument("Illegal argument", name)
       ELSE IF is_repeated THEN BadArgument("Repeated argument", name)
       ELSE IF value # None /\ contains_illegal_chars(value)
       THEN BadArgument("Invalid argument", name)
       ELSE NoExc

\* The loop over the names from position i on: the first error, or NoExc.
RECURSIVE CheckNames(_, _, _, _)
CheckNames(params, required, allowed, i) ==
    IF i > Len(params.pairs) THEN NoExc
    ELSE With(CheckName(params, required, allowed, params.pairs[i][1]),
              LAMBDA e :
         IF e # NoExc THEN e
         ELSE CheckNames(params, required, allowed, i + 1))

\* The loop `for p in required` (lines 275-277).
RECURSIVE CheckRequired(_, _, _)
CheckRequired(params, required, i) ==
    IF i > Len(required) THEN NoExc
    ELSE IF ~Has(params, required[i])
    THEN BadArgument("Missing argument", required[i])
    ELSE CheckRequired(params, required, i + 1)

\* Variant of _check_params with the two loops in the other order: the
\* required names are looked for before the names given are examined.
_check_params_required_first(params, required, allowed) ==
    IF ~Has(params, "verb") THEN MissingVerb
    ELSE IF params.multi /\ Len(getall(params, "verb")) > 1 THEN RepeatedVerb
    ELSE With(CheckRequired(params, required, 1), LAMBDA e :
         IF e # NoExc THEN e
         ELSE CheckNames(params, required, allowed, 1))

_check_params(params, required, allowed) ==
    IF ~Has(params, "verb") THEN MissingVerb
    ELSE IF params.multi /\ Len(getall(params, "verb")) > 1 THEN RepeatedVerb
    ELSE With(CheckNames(params, required, allowed, 1), LAMBDA e :
         IF e # NoExc THEN e
         ELSE CheckRequired(params, required, 1))

(***************************************************************************)
(* The store (kuha/models, not among the sources): its rows.               *)
(***************************************************************************)
\* Item identifiers in ascending order, and the metadata prefixes.
IdentifierNames == <<"a", "b", "c", "d", "e">>
Identifiers == SubSeq(IdentifierNames, 1, MaxRecords)
IdentifierSet == {Identifiers[i] : i \in 1..Len(Identifiers)}
Prefixes == {"oai_dc", "ead"}
SetSpecs == {"s"}
\* None where a datetime is expected (Datestamp.get() of an empty table).
NoDate == -1
NoDatestamp == NoDate

\* A store without rows.
EmptyStore ==
    /\ items = [i \in IdentifierSet |-> [state |-> "absent", sets |-> {}]]
    /\ formats = [p \in Prefixes |-> "absent"]
    /\ records = [r \in IdentifierSet \X Prefixes |->
                    [state |-> "absent", datestamp |-> 0]]
    /\ sets = {}
    /\ datestamp = NoDatestamp

NoParams == [multi |-> TRUE, pairs |-> <<>>]
NoRequest == [params |-> NoParams, time |-> 0, replayed |-> NoDate]
NoResponse == [kind |-> "none"]
NoToken == [token |-> None, time |-> NoDate]

\* No request is in flight and none was answered.
NoRequests ==
    /\ settings = [item_list_limit |-> 1, deleted_records |-> "no"]
    /\ clock = 0
    /\ request = NoRequest
    /\ response = NoResponse
    /\ issued = NoToken

(***************************************************************************)
(* SpecParams: _check_params applied to every parameter list of at most    *)
(* MaxParams pairs, as a MultiDict and (names unique) as a dict.           *)
(***************************************************************************)
ParamNames == {"verb", "identifier", "set"}
ParamValues == {Str("x"), Str(IllegalText), None}
RequiredLists == {<<>>, <<"identifier">>, <<"identifier", "set">>}
AllowedLists == {<<>>, <<"set">>}

ParamLists ==
    UNION {[1..n -> ParamNames \X ParamValues] : n \in 0..MaxParams}

InitParams ==
    /\ EmptyStore
    /\ NoRequests
    /\ pc = "call"
    /\ \E pairs \in ParamLists, multi \in BOOLEAN,
          required \in RequiredLists, allowed \in AllowedLists :
          \* a dict holds a name once; a MultiDict never holds None
          /\ ~multi => UniqueNames(pairs)
          /\ multi => \A i \in 1..Len(pairs) : pairs[i][2] # None
          /\ call = [fn |-> "_check_params",
                     params |-> [multi |-> multi, pairs |-> pairs],
                     required |-> required, allowed |-> allowed]
    /\ ret = NoExc

CallCheckParams ==
    /\ pc = "call"
    /\ call.fn = "_check_params"
    /\ ret' = _check_params(call.params, call.required, call.allowed)
    /\ pc' = "return"
    /\ UNCHANGED <<store, settings, clock, request, response, issued, call>>

NextParams == CallCheckParams

SpecParams == InitParams /\ [][NextParams]_vars

\* The violations of section 4.1, stated on the parameter list itself.
Count(pairs, name) == Cardinality({i \in 1..Len(pairs) : pairs[i][1] = name})
Expected(name, required, allowed) ==
    name = "verb" \/ InList(name, required) \/ InList(name, allowed)
HasUnexpected(c) ==
    \E i \in 1..Len(c.params.pairs) :
        ~Expected(c.params.pairs[i][1], c.required, c.allowed)
HasRepeated(c) ==
    \E i \in 1..Len(c.params.pairs) :
        Count(c.params.pairs, c.params.pairs[i][1]) > 1
HasIllegalValue(c) ==
    \E i \in 1..Len(c.params.pairs) :
        c.params.pairs[i][2] = Str(IllegalText)
HasMissing(c) ==
    \E i \in 1..Len(c.required) : Count(c.params.pairs, c.required[i]) = 0

\* C8: _check_params raises MissingVerb when verb is absent, RepeatedVerb
\* when verb occurs more than once, otherwise BadArgument when a name is
\* unexpected, a name is repeated, a value has illegal characters or a
\* required name is absent, and returns normally only when none of these
\* holds; a verb error wins over BadArgument, and an unexpected name is
\* reported rather than a missing required name.
C8_CheckParamsOutcome ==
    (pc = "return" /\ call.fn = "_check_params") =>
        LET n == Count(call.params.pairs, "verb")
            bad == HasUnexpected(call) \/ HasRepeated(call)
                     \/ HasIllegalValue(call) \/ HasMissing(call)
        IN /\ n = 0 => ret = MissingVerb
           /\ n > 1 => ret = RepeatedVerb
           /\ (n = 1 /\ bad) => ret.cls = "BadArgument"
           /\ (n = 1 /\ ~bad) => ret = NoExc
           /\ ret = NoExc => (n = 1 /\ ~bad)
           /\ (n = 1 /\ HasUnexpected(call)) => ret.msg # "Missing argument"

\* An unexpected name and a missing required name in one call, reported as
\* the unexpected name.
C8_Witness ==
    /\ pc = "return" /\ call.fn = "_check_params"
    /\ HasUnexpected(call) /\ HasMissing(call) /\ HasIllegalValue(call)
    /\ ret.cls = "BadArgument" /\ ret.msg = "Illegal argument"

(***************************************************************************)
(* views.py: _parse_from_and_until(from_date_str, until_date_str).         *)
(* The result is [exc, from_date, until_date]; exc = NoExc on return.      *)
(***************************************************************************)
\* Variant of _parse_from_and_until that reads until like from: a day
\* stands for its midnight.
_parse_from_and_until_midnight(from_date_str, until_date_str) ==
    LET absent == [ok |-> TRUE, date |-> NoDate, granularity |-> "None"]
        raise(e) == [exc |-> e, from_date |-> NoDate, until_date |-> NoDate]
    IN With(IF from_date_str # None THEN parse_date(from_date_str, 0)
            ELSE absent, LAMBDA from :
       With(IF until_date_str # None THEN parse_date(until_date_str, 0)
            ELSE absent, LAMBDA until :
       IF ~from.ok
       THEN raise(BadArgument("Illegal \"from\" datestamp", ""))
       ELSE IF ~until.ok
       THEN raise(BadArgument("Illegal \"until\" datestamp", ""))
       ELSE IF from.date # NoDate /\ until.date # NoDate
               /\ from.granularity # until.granularity
       THEN raise(BadArgument(
           "Datestamps \"from\" and \"until\" have different granularity", ""))
       ELSE IF from.date # NoDate /\ until.date # NoDate
               /\ from.date > until.date
       THEN raise(BadArgument(
           "Datestamp \"from\" is greater than \"until\"", ""))
       ELSE [exc |-> NoExc, from_date |-> from.date,
             until_date |-> until.date]))

_parse_from_and_until(from_date_str, until_date_str) ==
    LET absent == [ok |-> TRUE, date |-> NoDate, granularity |-> "None"]
        raise(e) == [exc |-> e, from_date |-> NoDate, until_date |-> NoDate]
    IN With(IF from_date_str # None THEN parse_date(from_date_str, 0)
            ELSE absent, LAMBDA from :
       With(IF until_date_str # None
            THEN parse_date(until_date_str, EndOfDay)
            ELSE absent, LAMBDA until :
       IF ~from.ok
       THEN raise(BadArgument("Illegal \"from\" datestamp", ""))
       ELSE IF ~until.ok
       THEN raise(BadArgument("Illegal \"until\" datestamp", ""))
       ELSE IF from.date # NoDate /\ until.date # NoDate
               /\ from.granularity # until.granularity
       THEN raise(BadArgument(
           "Datestamps \"from\" and \"until\" have different granularity", ""))
       ELSE IF from.date # NoDate /\ until.date # NoDate
               /\ from.date > until.date
       THEN raise(BadArgument(
           "Datestamp \"from\" is greater than \"until\"", ""))
       ELSE [exc |-> NoExc, from_date |-> from.date,
             until_date |-> until.date]))

(***************************************************************************)
(* SpecDates: _parse_from_and_until applied to every pair of datestamps    *)
(* of the days 0..MaxDay, in both granularities, absent or unparseable.    *)
(***************************************************************************)
DayTimes == {0, EndOfDay \div 2, EndOfDay}
DateStrings ==
    {DayStr(d) : d \in 0..MaxDay}
      \cup {SecStr(d * DaySeconds + t) : d \in 0..MaxDay, t \in DayTimes}
DateInputs == DateStrings \cup {None, Str("yesterday")}

InitDates ==
    /\ EmptyStore
    /\ NoRequests
    /\ pc = "call"
    /\ \E f \in DateInputs, u \in DateInputs :
          call = [fn |-> "_parse_from_and_until", from |-> f, until |-> u]
    /\ ret = [exc |-> NoExc, from_date |-> NoDate, until_date |-> NoDate]

CallParseFromAndUntil ==
    /\ pc = "call"
    /\ call.fn = "_parse_from_and_until"
    /\ ret' = _parse_from_and_until(call.from, call.until)
    /\ pc' = "return"
    /\ UNCHANGED <<store, settings, clock, request, response, issued, call>>

NextDates == CallParseFromAndUntil

SpecDates == InitDates /\ [][NextDates]_vars

\* A datestamp the protocol can read: a text in one of the two layouts.
Parseable(string) == string.k = "str" /\ string.s \in {DayLayout, SecLayout}

\* from <= until for two datestamps of one granularity: days are compared as
\* days (until reaches to 23:59:59 of its day), instants as instants.
NotAfter(from, until) == from.n <= until.n

\* C9: with from and until both given and parseable, _parse_from_and_until
\* returns exactly when their granularities are equal and from <= until,
\* a day-granularity until standing for 23:59:59 of its day (the same day as
\* from and until is accepted); otherwise, and for any unparseable string,
\* it raises BadArgument.
C9_FromUntil ==
    (pc = "return" /\ call.fn = "_parse_from_and_until") =>
        LET f == call.from
            u == call.until
            both == f # None /\ u # None /\ Parseable(f) /\ Parseable(u)
        IN /\ both => ((ret.exc = NoExc) <=> (f.s = u.s /\ NotAfter(f, u)))
           /\ (both /\ ret.exc # NoExc) => ret.exc.cls = "BadArgument"
           /\ ((f # None /\ ~Parseable(f)) \/ (u # None /\ ~Parseable(u)))
                 => ret.exc.cls = "BadArgument"
           /\ (both /\ ret.exc = NoExc /\ u.s = DayLayout)
                 => ret.until_date = u.n * DaySeconds + EndOfDay

\* from and until name the same day, in day granularity, and are accepted.
C9_Witness ==
    /\ pc = "return" /\ call.fn = "_parse_from_and_until"
    /\ call.from = DayStr(MaxDay) /\ call.until = DayStr(MaxDay)
    /\ ret.exc = NoExc
    /\ ret.from_date < ret.until_date

(***************************************************************************)
(* json (Python's library): the texts json.dumps writes and json.loads     *)
(* reads.  A JSON object is written with its members in order; reading it  *)
(* keeps, of a name written twice, the last value.                         *)
(***************************************************************************)
JsonObjectText == "{...}"
JsonArrayText == "[...]"

\* json.dumps(dict)
json_dumps(dict) ==
    [k |-> "str", s |-> JsonObjectText, n |-> 0, j |-> dict.pairs]

\* The pairs of a member list that no later pair of the same name follows.
RECURSIVE LastWins(_)
LastWins(pairs) ==
    IF pairs = <<>> THEN <<>>
    ELSE LET rest == Tail(pairs)
         IN IF \E i \in 1..Len(rest) : rest[i][1] = Head(pairs)[1]
            THEN LastWins(rest)
            ELSE <<Head(pairs)>> \o LastWins(rest)

\* json.loads(text): [ok, isdict, value]; ok is FALSE when it raises.
json_loads(text) ==
    IF text.k = "str" /\ text.s = JsonObjectText
    THEN [ok |-> TRUE, isdict |-> TRUE, value |-> Dict(LastWins(text.j))]
    ELSE IF text.k = "str" /\ text.s = JsonArrayText
    THEN [ok |-> TRUE, isdict |-> FALSE, value |-> Dict(<<>>)]
    ELSE [ok |-> FALSE, isdict |-> FALSE, value |-> Dict(<<>>)]

(***************************************************************************)
(* views.py: the resumption token codec.                                   *)
(***************************************************************************)
\* params[name] of a MultiDict or a dict that holds the name.
Item(params, name) == Get(params, name)

\* Variants of _create_resumption_token: one dates the token with the
\* clock at the time of writing instead of the request's time, one writes
\* the date in day granularity.
_create_resumption_token_now(params, offset, time) ==
    json_dumps(Dict(<<
        <<"verb", Item(params, "verb")>>,
        <<"metadataPrefix", Item(params, "metadataPrefix")>>,
        <<"offset", offset>>,
        <<"date", format_datestamp(datestamp_now)>>,
        <<"from", Get(params, "from")>>,
        <<"until", Get(params, "until")>>,
        <<"set", Get(params, "set")>> >>))
_create_resumption_token_day(params, offset, time) ==
    json_dumps(Dict(<<
        <<"verb", Item(params, "verb")>>,
        <<"metadataPrefix", Item(params, "metadataPrefix")>>,
        <<"offset", offset>>,
        <<"date", DayStr(time \div DaySeconds)>>,
        <<"from", Get(params, "from")>>,
        <<"until", Get(params, "until")>>,
        <<"set", Get(params, "set")>> >>))

\* _create_resumption_token(params, offset, time)
_create_resumption_token(params, offset, time) ==
    json_dumps(Dict(<<
        <<"verb", Item(params, "verb")>>,
        <<"metadataPrefix", Item(params, "metadataPrefix")>>,
        <<"offset", offset>>,
        <<"date", format_datestamp(time)>>,
        <<"from", Get(params, "from")>>,
        <<"until", Get(params, "until")>>,
        <<"set", Get(params, "set")>> >>))

\* Datestamp.get()
Datestamp_get == datestamp

\* Variants of _check_resumption_token_date: one raises
\* InvalidResumptionToken for an expired token, one lets a token dated at
\* the very second of the Datestamp pass.
_check_resumption_token_date_invalid(token) ==
    With(IF Has(token, "date") THEN parse_date(Item(token, "date"), 0)
         ELSE [ok |-> FALSE, date |-> 0, granularity |-> "KeyError"],
         LAMBDA parsed :
    With(Datestamp_get, LAMBDA latest :
    IF ~parsed.ok THEN InvalidResumptionToken
    ELSE IF latest # NoDate /\ latest >= parsed.date
    THEN InvalidResumptionToken
    ELSE NoExc))
_check_resumption_token_date_strict(token) ==
    With(IF Has(token, "date") THEN parse_date(Item(token, "date"), 0)
         ELSE [ok |-> FALSE, date |-> 0, granularity |-> "KeyError"],
         LAMBDA parsed :
    With(Datestamp_get, LAMBDA latest :
    IF ~parsed.ok THEN InvalidResumptionToken
    ELSE IF latest # NoDate /\ latest > parsed.date
    THEN ExpiredResumptionToken
    ELSE NoExc))

\* _check_resumption_token_date(token): NoExc, or what it raises.
_check_resumption_token_date(token) ==
    With(IF Has(token, "date") THEN parse_date(Item(token, "date"), 0)
         ELSE [ok |-> FALSE, date |-> 0, granularity |-> "KeyError"],
         LAMBDA parsed :
    With(Datestamp_get, LAMBDA latest :
    IF ~parsed.ok THEN InvalidResumptionToken
    ELSE IF latest # NoDate /\ latest >= parsed.date
    THEN ExpiredResumptionToken
    ELSE NoExc))

\* The return value None of _get_resumption_token.
NoTokenParams == [exc |-> NoExc, present |-> FALSE, token |-> Dict(<<>>)]

\* _get_resumption_token(request): [exc, present, token]; present is FALSE
\* when it returns None, exc is what it raises.
_get_resumption_token(req) ==
    LET raise(e) == [exc |-> e, present |-> FALSE, token |-> Dict(<<>>)]
    IN IF ~Has(req.params, "resumptionToken") THEN NoTokenParams
       ELSE With(_check_params(req.params, <<"resumptionToken">>, <<>>),
                 LAMBDA checked :
       IF checked # NoExc THEN raise(checked)
       ELSE With(json_loads(Item(req.params, "resumptionToken")),
                 LAMBDA loaded :
       IF ~loaded.ok THEN raise(InvalidResumptionToken)
       ELSE IF ~loaded.isdict THEN raise(InvalidResumptionToken)
       ELSE With(loaded.value, LAMBDA parsed :
       IF \E i \in 1..Len(parsed.pairs) :
              parsed.pairs[i][2].k \notin {"None", "str"}
       THEN raise(InvalidResumptionToken)
       ELSE IF Get(parsed, "verb") # Item(req.params, "verb")
       THEN raise(InvalidResumptionToken)
       ELSE With(_check_resumption_token_date(parsed), LAMBDA dated :
       IF dated # NoExc THEN raise(dated)
       ELSE [exc |-> NoExc, present |-> TRUE, token |-> parsed]))))

(***************************************************************************)
(* The queries of the store (kuha/models, not among the sources; modelled  *)
(* from section 6 of the specification).                                   *)
(***************************************************************************)
\* Whether a row in state `state` is seen by a query.
Visible(state, ignore_deleted) ==
    state = "live" \/ (state = "deleted" /\ ~ignore_deleted)

\* Item.exists(identifier, ignore_deleted)
Item_exists(identifier, ignore_deleted) ==
    /\ identifier.k = "str" /\ identifier.s \in IdentifierSet
    /\ Visible(items[identifier.s].state, ignore_deleted)

\* Format.exists(prefix, ignore_deleted)
Format_exists(prefix, ignore_deleted) ==
    /\ prefix.k = "str" /\ prefix.s \in Prefixes
    /\ Visible(formats[prefix.s], ignore_deleted)

\* Set.list()
Set_list == sets

\* The place of an identifier in the ascending order of identifiers; a text
\* that is no identifier of the model sorts after them all.
Position(text) ==
    IF \E i \in 1..Len(IdentifierNames) : IdentifierNames[i] = text
    THEN CHOOSE i \in 1..Len(IdentifierNames) : IdentifierNames[i] = text
    ELSE Len(IdentifierNames) + 1

\* The first `limit` elements of a list (all of it when limit is NoLimit).
NoLimit == -1
Take(list, limit) ==
    IF limit = NoLimit \/ Len(list) <= limit THEN list
    ELSE SubSeq(list, 1, limit)

\* Record.list(identifier, metadata_prefix, from_date, until_date, set_,
\* ignore_deleted, offset, limit): the matching rows by ascending
\* identifier, from the identifier `offset` on, at most `limit` of them.
Record_list(identifier, metadata_prefix, from_date, until_date, set_, ignore_deleted, offset, limit) ==
    LET matches(id) ==
            /\ metadata_prefix.s \in Prefixes
            /\ Visible(records[<<id, metadata_prefix.s>>].state,
                       ignore_deleted)
            /\ identifier # None => identifier.s = id
            /\ from_date # NoDate =>
                   records[<<id, metadata_prefix.s>>].datestamp >= from_date
            /\ until_date # NoDate =>
                   records[<<id, metadata_prefix.s>>].datestamp <= until_date
            /\ set_ # None => set_.s \in items[id].sets
            /\ offset # None => Position(id) >= Position(offset.s)
        rows == [i \in 1..Len(Identifiers) |->
                    [identifier |-> Identifiers[i],
                     prefix |-> metadata_prefix.s]]
    IN Take(SelectSeq(rows, LAMBDA row : matches(row.identifier)), limit)

\* Format.list(identifier, ignore_deleted): the formats of the store, or
\* those in which the item has a record.
Format_list(identifier, ignore_deleted) ==
    {p \in Prefixes :
        /\ Visible(formats[p], ignore_deleted)
        /\ identifier # None =>
               Visible(records[<<identifier.s, p>>].state, ignore_deleted)}

\* Record.earliest_datestamp(ignore_deleted): NoDate without records.
Record_earliest_datestamp(ignore_deleted) ==
    LET seen == {r \in DOMAIN records :
                    Visible(records[r].state, ignore_deleted)}
    IN IF seen = {} THEN NoDate
       ELSE CHOOSE d \in {records[r].datestamp : r \in seen} :
                \A r \in seen : d <= records[r].datestamp

(***************************************************************************)
(* views.py: the helpers of the handlers.                                  *)
(***************************************************************************)
\* _get_ignore_deleted(request)
_get_ignore_deleted == settings.deleted_records = "no"

\* _get_metadata_prefix(params, ignore_deleted): NoExc, or what it raises.
_get_metadata_prefix(params, ignore_deleted) ==
    IF ~Format_exists(Item(params, "metadataPrefix"), ignore_deleted)
    THEN UnsupportedMetadataFormat(Item(params, "metadataPrefix"))
    ELSE NoExc

\* _get_identifier(params, ignore_deleted): NoExc, or what it raises.
_get_identifier(params, ignore_deleted) ==
    IF ~Has(params, "identifier") THEN NoExc
    ELSE IF ~Item_exists(Item(params, "identifier"), ignore_deleted)
    THEN IdDoesNotExist(Item(params, "identifier"))
    ELSE NoExc

\* Variant of _get_records without the lookahead: it fetches `limit` rows.
_get_records_no_lookahead(params, ignore_deleted, limit) ==
    LET raise(e) == [exc |-> e, records |-> <<>>, next_offset |-> None]
    IN With(_get_metadata_prefix(params, ignore_deleted), LAMBDA prefix :
       IF prefix # NoExc THEN raise(prefix)
       ELSE With(_parse_from_and_until(Get(params, "from"),
                                       Get(params, "until")), LAMBDA dates :
       IF dates.exc # NoExc THEN raise(dates.exc)
       ELSE IF Get(params, "set") # None /\ Cardinality(Set_list) = 0
       THEN raise(NoSetHierarchy)
       ELSE With(Record_list(None, Item(params, "metadataPrefix"),
                             dates.from_date, dates.until_date,
                             Get(params, "set"), ignore_deleted,
                             Get(params, "offset"), limit),
                 LAMBDA found :
       IF found = <<>> THEN raise(NoRecordsMatch)
       ELSE IF Len(found) = limit + 1
       THEN [exc |-> NoExc, records |-> SubSeq(found, 1, Len(found) - 1),
             next_offset |-> Str(found[Len(found)].identifier)]
       ELSE [exc |-> NoExc, records |-> found, next_offset |-> None])))

\* Variant of _get_records that hands out the identifier of the last
\* record it returns as the next offset.
_get_records_last_returned(params, ignore_deleted, limit) ==
    LET raise(e) == [exc |-> e, records |-> <<>>, next_offset |-> None]
    IN With(_get_metadata_prefix(params, ignore_deleted), LAMBDA prefix :
       IF prefix # NoExc THEN raise(prefix)
       ELSE With(_parse_from_and_until(Get(params, "from"),
                                       Get(params, "until")), LAMBDA dates :
       IF dates.exc # NoExc THEN raise(dates.exc)
       ELSE IF Get(params, "set") # None /\ Cardinality(Set_list) = 0
       THEN raise(NoSetHierarchy)
       ELSE With(Record_list(None, Item(params, "metadataPrefix"),
                             dates.from_date, dates.until_date,
                             Get(params, "set"), ignore_deleted,
                             Get(params, "offset"), limit + 1),
                 LAMBDA found :
       IF found = <<>> THEN raise(NoRecordsMatch)
       ELSE IF Len(found) = limit + 1
       THEN [exc |-> NoExc, records |-> SubSeq(found, 1, Len(found) - 1),
             next_offset |-> Str(found[Len(found) - 1].identifier)]
       ELSE [exc |-> NoExc, records |-> found, next_offset |-> None])))

\* A variant that returns the extra record with the page it was fetched
\* for.
_get_records_keeps_lookahead(params, ignore_deleted, limit) ==
    LET raise(e) == [exc |-> e, records |-> <<>>, next_offset |-> None]
    IN With(_get_metadata_prefix(params, ignore_deleted), LAMBDA prefix :
       IF prefix # NoExc THEN raise(prefix)
       ELSE With(_parse_from_and_until(Get(params, "from"),
                                       Get(params, "until")), LAMBDA dates :
       IF dates.exc # NoExc THEN raise(dates.exc)
       ELSE IF Get(params, "set") # None /\ Cardinality(Set_list) = 0
       THEN raise(NoSetHierarchy)
       ELSE With(Record_list(None, Item(params, "metadataPrefix"),
                             dates.from_date, dates.until_date,
                             Get(params, "set"), ignore_deleted,
                             Get(params, "offset"), limit + 1),
                 LAMBDA found :
       IF found = <<>> THEN raise(NoRecordsMatch)
       ELSE IF Len(found) = limit + 1
       THEN [exc |-> NoExc, records |-> found,
             next_offset |-> Str(found[Len(found)].identifier)]
       ELSE [exc |-> NoExc, records |-> found, next_offset |-> None])))

\* _get_records(params, ignore_deleted, limit): [exc, records, next_offset].
_get_records(params, ignore_deleted, limit) ==
    LET raise(e) == [exc |-> e, records |-> <<>>, next_offset |-> None]
    IN With(_get_metadata_prefix(params, ignore_deleted), LAMBDA prefix :
       IF prefix # NoExc THEN raise(prefix)
       ELSE With(_parse_from_and_until(Get(params, "from"),
                                       Get(params, "until")), LAMBDA dates :
       IF dates.exc # NoExc THEN raise(dates.exc)
       ELSE IF Get(params, "set") # None /\ Cardinality(Set_list) = 0
       THEN raise(NoSetHierarchy)
       ELSE With(Record_list(None, Item(params, "metadataPrefix"),
                             dates.from_date, dates.until_date,
                             Get(params, "set"), ignore_deleted,
                             Get(params, "offset"), limit + 1),
                 LAMBDA found :
       IF found = <<>> THEN raise(NoRecordsMatch)
       ELSE IF Len(found) = limit + 1
       THEN [exc |-> NoExc, records |-> SubSeq(found, 1, Len(found) - 1),
             next_offset |-> Str(found[Len(found)].identifier)]
       ELSE [exc |-> NoExc, records |-> found, next_offset |-> None])))

(***************************************************************************)
(* views.py: the handlers.  Each gives what the view returns or raises:    *)
(* [exc, records, token, sets, formats, earliest].                         *)
(***************************************************************************)
Returns(recs, token, setlist, formatlist, earliest) ==
    [exc |-> NoExc, records |-> recs, token |-> token, sets |-> setlist,
     formats |-> formatlist, earliest |-> earliest]
Raises(e) ==
    [exc |-> e, records |-> <<>>, token |-> None, sets |-> {},
     formats |-> {}, earliest |-> NoDate]

\* invalid_verb_view(request)
invalid_verb_view(req) ==
    IF Has(req.params, "verb") THEN Raises(InvalidVerb)
    ELSE Raises(MissingVerb)

\* handle_identify(request)
handle_identify(req) ==
    With(_check_params(req.params, <<>>, <<>>), LAMBDA checked :
    IF checked # NoExc THEN Raises(checked)
    ELSE With(Record_earliest_datestamp(_get_ignore_deleted),
              LAMBDA earliest :
    Returns(<<>>, None, {}, {},
            IF earliest # NoDate THEN earliest ELSE req.time)))

\* Variant of handle_list_sets without the except clause: an expired token
\* is reported as expired.
handle_list_sets_expired(req) ==
    With(_get_resumption_token(req), LAMBDA token :
    IF token.exc # NoExc THEN Raises(token.exc)
    ELSE IF token.present /\ token.token.pairs # <<>>
    THEN Raises(InvalidResumptionToken)
    ELSE With(_check_params(req.params, <<>>, <<>>), LAMBDA checked :
    IF checked # NoExc THEN Raises(checked)
    ELSE IF Cardinality(Set_list) = 0 THEN Raises(NoSetHierarchy)
    ELSE Returns(<<>>, None, Set_list, {}, NoDate)))

\* handle_list_sets(request)
handle_list_sets(req) ==
    With(_get_resumption_token(req), LAMBDA token :
    IF token.exc = ExpiredResumptionToken
    THEN Raises(InvalidResumptionToken)
    ELSE IF token.exc # NoExc THEN Raises(token.exc)
    ELSE IF token.present /\ token.token.pairs # <<>>
    THEN Raises(InvalidResumptionToken)
    ELSE With(_check_params(req.params, <<>>, <<>>), LAMBDA checked :
    IF checked # NoExc THEN Raises(checked)
    ELSE IF Cardinality(Set_list) = 0 THEN Raises(NoSetHierarchy)
    ELSE Returns(<<>>, None, Set_list, {}, NoDate)))

\* handle_list_metadata_formats(request)
handle_list_metadata_formats(req) ==
    With(_check_params(req.params, <<>>, <<"identifier">>), LAMBDA checked :
    IF checked # NoExc THEN Raises(checked)
    ELSE With(_get_ignore_deleted, LAMBDA ignore_deleted :
    With(_get_identifier(req.params, ignore_deleted), LAMBDA found :
    IF found # NoExc THEN Raises(found)
    ELSE With(Get(req.params, "identifier"), LAMBDA identifier :
    With(Format_list(identifier, ignore_deleted), LAMBDA formatlist :
    IF identifier # None /\ formatlist = {}
    THEN Raises(NoMetadataFormats(identifier))
    ELSE IF formatlist = {}
    THEN Raises(AssertionError("No metadata formats supported"))
    ELSE Returns(<<>>, None, {}, formatlist, NoDate))))))

\* Variant of the except clause that raises every error again as it is.
Reraise_as_is(error, has_token) == error

\* handle_list_items, lines 164-169: what the except clause raises for an
\* error raised in the try block.
Reraise(error, has_token) ==
    IF IsOaiException(error) /\ has_token THEN InvalidResumptionToken
    ELSE error

\* handle_list_items(request)
handle_list_items(req) ==
    With(settings.item_list_limit, LAMBDA limit :
    With(_get_resumption_token(req), LAMBDA token_params :
    IF token_params.exc # NoExc THEN Raises(token_params.exc)
    ELSE
    With(token_params.present, LAMBDA has_token :
    With(IF token_params.present /\ token_params.token.pairs # <<>>
         THEN token_params.token
         ELSE req.params, LAMBDA params :
    With(IF has_token
         THEN <<"metadataPrefix", "offset", "date", "from", "until", "set">>
         ELSE <<"metadataPrefix">>, LAMBDA required :
    With(IF has_token THEN <<>> ELSE <<"from", "until", "set">>,
         LAMBDA allowed :
    With(_check_params(params, required, allowed), LAMBDA checked :
    With(IF checked # NoExc
         THEN [exc |-> checked, records |-> <<>>, next_offset |-> None]
         ELSE _get_records(params, _get_ignore_deleted, limit),
         LAMBDA got :
    IF got.exc # NoExc THEN Raises(Reraise(got.exc, has_token))
    ELSE Returns(got.records,
                 IF got.next_offset # None
                 THEN _create_resumption_token(params, got.next_offset,
                                               req.time)
                 ELSE IF token_params.present THEN Str("")
                 ELSE None,
                 {}, {}, NoDate)))))))))

\* Variant of handle_get_record that examines the prefix before the
\* identifier.
handle_get_record_prefix_first(req) ==
    With(_check_params(req.params, <<"identifier", "metadataPrefix">>, <<>>),
         LAMBDA checked :
    IF checked # NoExc THEN Raises(checked)
    ELSE With(_get_ignore_deleted, LAMBDA ignore_deleted :
    With(_get_metadata_prefix(req.params, ignore_deleted), LAMBDA prefix :
    IF prefix # NoExc THEN Raises(prefix)
    ELSE With(_get_identifier(req.params, ignore_deleted),
              LAMBDA identifier :
    IF identifier # NoExc THEN Raises(identifier)
    ELSE With(Record_list(Item(req.params, "identifier"),
                          Item(req.params, "metadataPrefix"),
                          NoDate, NoDate, None, ignore_deleted,
                          None, NoLimit), LAMBDA found :
    IF found = <<>>
    THEN Raises(UnavailableMetadataFormat(
             Item(req.params, "metadataPrefix"),
             Item(req.params, "identifier")))
    ELSE IF Len(found) # 1
    THEN Raises(AssertionError("Id-prefix combination is not unique"))
    ELSE Returns(<<found[1]>>, None, {}, {}, NoDate))))))

\* handle_get_record(request)
handle_get_record(req) ==
    With(_check_params(req.params, <<"identifier", "metadataPrefix">>, <<>>),
         LAMBDA checked :
    IF checked # NoExc THEN Raises(checked)
    ELSE With(_get_ignore_deleted, LAMBDA ignore_deleted :
    With(_get_identifier(req.params, ignore_deleted), LAMBDA identifier :
    IF identifier # NoExc THEN Raises(identifier)
    ELSE With(_get_metadata_prefix(req.params, ignore_deleted),
              LAMBDA prefix :
    IF prefix # NoExc THEN Raises(prefix)
    ELSE With(Record_list(Item(req.params, "identifier"),
                          Item(req.params, "metadataPrefix"),
                          NoDate, NoDate, None, ignore_deleted,
                          None, NoLimit), LAMBDA found :
    IF found = <<>>
    THEN Raises(UnavailableMetadataFormat(
             Item(req.params, "metadataPrefix"),
             Item(req.params, "identifier")))
    ELSE IF Len(found) # 1
    THEN Raises(AssertionError("Id-prefix combination is not unique"))
    ELSE Returns(<<found[1]>>, None, {}, {}, NoDate))))))

\* The view that the route 'oai' calls for a request: the one whose
\* request_param names the request's verb, else invalid_verb_view.
View(req) ==
    With(Get(req.params, "verb"), LAMBDA verb :
    CASE verb = Str("Identify") -> handle_identify(req)
      [] verb = Str("ListSets") -> handle_list_sets(req)
      [] verb = Str("ListMetadataFormats")
            -> handle_list_metadata_formats(req)
      [] verb \in {Str("ListIdentifiers"), Str("ListRecords")}
            -> handle_list_items(req)
      [] verb = Str("GetRecord") -> handle_get_record(req)
      [] OTHER -> invalid_verb_view(req))

(***************************************************************************)
(* The steps of the program.                                               *)
(***************************************************************************)
\* The clock starts after the days 0..MaxDay that datestamps may name.
ClockStart == (MaxDay + 1) * DaySeconds

\* A second passes.
Tick ==
    /\ clock < ClockStart + MaxClock
    /\ clock' = clock + 1
    /\ UNCHANGED <<store, settings, pc, request, response, issued, call, ret>>

\* A harvest run records its synchronization time, an instant between the
\* last synchronization and now, as the Datestamp (section 3 of the
\* specification; the harvester is not among the sources).
Synchronize ==
    /\ \E t \in ClockStart..clock :
          /\ t > datestamp
          /\ datestamp' = t
    /\ UNCHANGED <<items, formats, records, sets, settings, clock, pc,
                   request, response, issued, call, ret>>

\* oai_view, lines 29-35: a request arrives and the wrapper reads the clock
\* before the view queries the store.  `replayed` is, for a request that
\* sends back the token the client was handed last, the time of the request
\* that token was issued to (else NoDate).
Arrive(params, replayed) ==
    /\ pc = "idle"
    /\ request' = [params |-> params, time |-> datestamp_now,
                   replayed |-> replayed]
    /\ response' = NoResponse
    /\ pc' = "handling"
    /\ UNCHANGED <<store, settings, clock, issued, call, ret>>

\* A client sends a request it wrote itself.
Receive(inputs) == \E params \in inputs : Arrive(params, NoDate)

\* A client sends back, alone with a verb, the token the last answer
\* handed it.
Replay(verbs) ==
    /\ issued # NoToken
    /\ \E verb \in verbs :
          Arrive(MultiDict(<< <<"verb", Str(verb)>>,
                              <<"resumptionToken", issued.token>> >>),
                 issued.time)

\* The response to a request whose view returned or raised `result`.
Answer(req, result) ==
    [kind |-> IF result.exc = NoExc THEN "result"
              ELSE IF IsOaiException(result.exc) THEN "error"
              ELSE "crash",
     params |-> req.params, replayed |-> req.replayed,
     exc |-> result.exc, records |-> result.records,
     token |-> result.token, sets |-> result.sets,
     formats |-> result.formats, earliest |-> result.earliest,
     time |-> IF result.exc = NoExc THEN req.time ELSE datestamp_now]

\* A variant in which answering a request stamps the store.
Respond_stamping ==
    /\ pc = "handling"
    /\ response' = Answer(request, View(request))
    /\ issued' = IF response'.kind = "result" /\ response'.token # None
                    /\ response'.token # Str("")
                 THEN [token |-> response'.token, time |-> request.time]
                 ELSE NoToken
    /\ request' = NoRequest
    /\ pc' = "idle"
    /\ datestamp' = request.time
    /\ UNCHANGED <<items, formats, records, sets, settings, clock, call,
                   ret>>

\* oai_view, lines 37-48: the view runs and its result, or the protocol
\* error it raised (rendered by oai_error_view), is the response; the
\* request ends.
Respond ==
    /\ pc = "handling"
    /\ response' = Answer(request, View(request))
    /\ issued' = IF response'.kind = "result" /\ response'.token # None
                    /\ response'.token # Str("")
                 THEN [token |-> response'.token, time |-> request.time]
                 ELSE NoToken
    /\ request' = NoRequest
    /\ pc' = "idle"
    /\ UNCHANGED <<store, settings, clock, call, ret>>

(***************************************************************************)
(* Spec: requests and their tokens against a store that a harvest          *)
(* synchronizes while the clock runs.                                      *)
(***************************************************************************)
ListVerbs == {"ListIdentifiers", "ListRecords"}

\* The text of a token with the given fields, as a client may write it.
TokenOf(verb, prefix, offset, date, from, until, set_) ==
    [k |-> "str", s |-> JsonObjectText, n |-> 0,
     j |-> << <<"verb", verb>>, <<"metadataPrefix", prefix>>,
              <<"offset", offset>>, <<"date", date>>, <<"from", from>>,
              <<"until", until>>, <<"set", set_>> >>]

\* The pairs of a list without those of one name.
Without(pairs, name) == SelectSeq(pairs, LAMBDA pair : pair[1] # name)

\* A request of a verb and one more argument.
Request1(verb, name, value) ==
    MultiDict(<< <<"verb", Str(verb)>>, <<name, value>> >>)
Request2(verb, name1, value1, name2, value2) ==
    MultiDict(<< <<"verb", Str(verb)>>, <<name1, value1>>,
                 <<name2, value2>> >>)

\* A store of two items, each with a record in oai_dc stamped on day 0,
\* the first in the set "s".
InitTwoItems_rows ==
    /\ sets = SetSpecs
    /\ items = [i \in IdentifierSet |->
                  [state |-> IF Position(i) <= 2 THEN "live" ELSE "absent",
                   sets |-> IF i = Identifiers[1] THEN sets ELSE {}]]
    /\ formats = [p \in Prefixes |->
                    IF p = "oai_dc" THEN "live" ELSE "absent"]
    /\ records = [r \in IdentifierSet \X Prefixes |->
                    [state |-> IF r[2] = "oai_dc" /\ Position(r[1]) <= 2
                               THEN "live" ELSE "absent",
                     datestamp |-> 0]]

\* That store before its first synchronization.
InitTwoItems ==
    /\ InitTwoItems_rows
    /\ datestamp = NoDatestamp

\* Dates a client may write into a token: each instant of the clock, in
\* seconds and (midnight of the clock's day) in day granularity, none, and
\* a text that is no date.
TokenDates ==
    {SecStr(t) : t \in ClockStart..(ClockStart + MaxClock)}
      \cup {DayStr(MaxDay + 1), None, Str("yesterday")}

\* Tokens a client may write: well-formed ones of each date and verb, and
\* texts that are no token.
WrittenTokens ==
    {TokenOf(Str("ListRecords"), Str("oai_dc"), Str(Identifiers[1]), d,
             None, None, None) : d \in TokenDates}
MalformedTokens ==
    {Str("ListRecords"), Str(JsonArrayText), Str(IllegalText),
     json_dumps(Dict(<< <<"verb", Str("ListSets")>>,
                        <<"date", SecStr(ClockStart + MaxClock)>> >>)),
     json_dumps(Dict(<< <<"verb", Str("ListRecords")>>,
                        <<"date", SecStr(ClockStart + MaxClock)>>,
                        <<"offset", PyInt(1)>> >>)),
     json_dumps(Dict(<< <<"verb", Str("ListRecords")>> >>))}

TokenRequests ==
    {Request1(v, "metadataPrefix", Str("oai_dc")) : v \in ListVerbs}
      \cup {Request1(v, "resumptionToken", t)
              : v \in ListVerbs \cup {"ListSets"},
                t \in WrittenTokens \cup MalformedTokens}
      \cup {Request2(v, "resumptionToken", t, "metadataPrefix", Str("oai_dc"))
              : v \in ListVerbs \cup {"ListSets"},
                t \in {TokenOf(Str("ListRecords"), Str("oai_dc"),
                               Str(Identifiers[1]),
                               SecStr(ClockStart + MaxClock),
                               None, None, None)}}
      \cup {Request2("ListSets", "resumptionToken", t, "resumptionToken", t)
              : t \in {Str(JsonArrayText)}}
      \cup {MultiDict(<< <<"verb", Str("ListSets")>> >>)}

Init ==
    /\ InitTwoItems
    /\ settings = [item_list_limit |-> 1, deleted_records |-> "no"]
    /\ clock = ClockStart
    /\ pc = "idle"
    /\ request = NoRequest
    /\ response = NoResponse
    /\ issued = NoToken
    /\ call = [fn |-> "none"]
    /\ ret = NoExc

Next ==
    \/ Tick
    \/ Synchronize
    \/ Receive(TokenRequests)
    \/ Replay(ListVerbs \cup {"ListSets"})
    \/ Respond

Spec == Init /\ [][Next]_vars

(***************************************************************************)
(* What the claims say of a request, stated on the request's text.         *)
(***************************************************************************)
\* The verb of a parameter list that names one verb.
VerbOf(params) ==
    LET verbs == {i \in 1..Len(params.pairs) : params.pairs[i][1] = "verb"}
    IN IF Cardinality(verbs) = 1
       THEN params.pairs[CHOOSE i \in verbs : TRUE][2].s
       ELSE "(none)"

\* Whether a parameter list names an argument.
Carries(params, name) ==
    \E i \in 1..Len(params.pairs) : params.pairs[i][1] = name

\* The resumptionToken argument of a list that carries exactly one.
TokenIn(params) ==
    params.pairs[CHOOSE i \in 1..Len(params.pairs) :
                    params.pairs[i][1] = "resumptionToken"][2]

\* The value a token's text gives to a field (the last one written).
Field(token, name) ==
    LET at == {i \in 1..Len(token.j) : token.j[i][1] = name}
    IN IF at = {} THEN None
       ELSE token.j[CHOOSE i \in at : \A k \in at : k <= i][2]

\* The instant a datestamp text names (a day: its midnight).
Instant(date) == IF date.s = DayLayout THEN date.n * DaySeconds ELSE date.n

\* A request of one verb and one resumptionToken and nothing else, the
\* token without illegal characters.
TokenAlone(params) ==
    /\ Len(params.pairs) = 2
    /\ VerbOf(params) # "(none)"
    /\ Carries(params, "resumptionToken")
    /\ TokenIn(params).s # IllegalText

\* A structurally valid token in such a request: a JSON object of strings
\* and nulls whose verb is the request's and whose date can be read.
ValidToken(params) ==
    /\ TokenAlone(params)
    /\ TokenIn(params).s = JsonObjectText
    /\ \A i \in 1..Len(TokenIn(params).j) :
           TokenIn(params).j[i][2].k \in {"None", "str"}
    /\ Field(TokenIn(params), "verb") = Str(VerbOf(params))
    /\ Field(TokenIn(params), "date").s \in {DayLayout, SecLayout}

\* The step in which the view answers the request in flight.
Answering == pc = "handling" /\ pc' = "idle"

C4_TokenDiesAtSync ==
    [][(/\ Answering
        /\ request.replayed # NoDate
        /\ datestamp # NoDate
        /\ datestamp >= request.replayed)
       => /\ response'.kind = "error"
          /\ code(response'.exc) = "badResumptionToken"
          /\ response'.records = <<>>]_vars

\* A token was replayed to the verb it was issued for, and refused, with
\* the Datestamp at the very second at which the issuing request read the
\* clock.
C4_Witness ==
    /\ pc = "idle" /\ response.kind = "error"
    /\ response.replayed # NoDate
    /\ response.replayed = datestamp
    /\ VerbOf(response.params) \in ListVerbs
    /\ Field(TokenIn(response.params), "verb") = Str(VerbOf(response.params))
    /\ code(response.exc) = "badResumptionToken"

\* C7 as stated: a ListSets request with a resumptionToken argument is
\* always answered with InvalidResumptionToken.
C7_ListSetsAlwaysInvalid ==
    (/\ response.kind # "none"
     /\ VerbOf(response.params) = "ListSets"
     /\ Carries(response.params, "resumptionToken"))
    => response.exc = InvalidResumptionToken

\* C7 amended: a ListSets request with a resumptionToken argument always
\* fails, never returns the set list and never with
\* ExpiredResumptionToken; it fails with InvalidResumptionToken when the
\* token is its only argument and has no illegal characters (malformed,
\* valid or expired alike), and with BadArgument otherwise.
C7_ListSetsRefusesToken ==
    (/\ response.kind # "none"
     /\ VerbOf(response.params) = "ListSets"
     /\ Carries(response.params, "resumptionToken"))
    => /\ response.kind = "error"
       /\ response.sets = {}
       /\ response.exc # ExpiredResumptionToken
       /\ TokenAlone(response.params)
             => response.exc = InvalidResumptionToken
       /\ ~TokenAlone(response.params)
             => response.exc.cls = "BadArgument"

\* ListSets was sent a token of its own verb, valid but expired, and
\* answered InvalidResumptionToken.
C7_Witness ==
    /\ response.kind = "error"
    /\ VerbOf(response.params) = "ListSets"
    /\ ValidToken(response.params)
    /\ datestamp # NoDate
    /\ Instant(Field(TokenIn(response.params), "date")) <= response.time
    /\ Instant(Field(TokenIn(response.params), "date")) <= datestamp
    /\ response.exc = InvalidResumptionToken

(***************************************************************************)
(* SpecCodec: the token codec alone.  _get_resumption_token is applied to  *)
(* requests a client wrote, and to the request that sends back what        *)
(* _create_resumption_token made of every parameter set, offset and issue  *)
(* time, against every Datestamp.                                          *)
(***************************************************************************)
\* Parameter sets of a listing request: a MultiDict of the arguments given.
Optional(name, values) == {<<>>} \cup {<< <<name, v>> >> : v \in values}
ListingParams ==
    {MultiDict(<< <<"verb", Str(v)>>, <<"metadataPrefix", Str(p)>> >>
               \o f \o u \o z)
        : v \in ListVerbs, p \in Prefixes,
          f \in Optional("from", {DayStr(0)}),
          u \in Optional("until", {SecStr(MaxDay * DaySeconds)}),
          z \in Optional("set", {Str("s")})}

\* Parameter sets of a replayed listing: the dict of a decoded token.
ReplayedParams ==
    {Dict(TokenOf(Str(v), Str("oai_dc"), Str(Identifiers[1]),
                  SecStr(ClockStart), None, u, None).j)
        : v \in ListVerbs, u \in {None, DayStr(MaxDay)}}

Datestamps == {NoDatestamp} \cup (ClockStart - 1)..(ClockStart + MaxClock)

NotMade == [params |-> NoParams, offset |-> None, time |-> NoDate]

InitCodec ==
    /\ InitTwoItems_rows
    /\ datestamp \in Datestamps
    /\ settings = [item_list_limit |-> 1, deleted_records |-> "no"]
    /\ clock = ClockStart + MaxClock
    /\ pc = "call"
    /\ request = NoRequest
    /\ response = NoResponse
    /\ issued = NoToken
    /\ \/ \E params \in ListingParams \cup ReplayedParams,
             i \in 1..Len(Identifiers),
             time \in ClockStart..(ClockStart + MaxClock),
             verb \in ListVerbs :
             call = [fn |-> "_create_resumption_token", params |-> params,
                     offset |-> Str(Identifiers[i]), time |-> time,
                     verb |-> verb]
       \/ \E params \in TokenRequests :
             /\ Carries(params, "resumptionToken")
             /\ call = [fn |-> "_get_resumption_token",
                        params |-> params, made |-> NotMade]
    /\ ret = NoTokenParams

\* The server makes a token; the client sends it back with a verb.
CallCreateResumptionToken ==
    /\ pc = "call"
    /\ call.fn = "_create_resumption_token"
    /\ call' = [fn |-> "_get_resumption_token",
                params |-> Request1(call.verb, "resumptionToken",
                              _create_resumption_token(
                                  call.params, call.offset, call.time)),
                made |-> [params |-> call.params, offset |-> call.offset,
                          time |-> call.time]]
    /\ UNCHANGED <<store, settings, clock, pc, request, response, issued,
                   ret>>

CallGetResumptionToken ==
    /\ pc = "call"
    /\ call.fn = "_get_resumption_token"
    /\ ret' = _get_resumption_token([params |-> call.params, time |-> clock,
                                     replayed |-> NoDate])
    /\ pc' = "return"
    /\ UNCHANGED <<store, settings, clock, request, response, issued, call>>

NextCodec == CallCreateResumptionToken \/ CallGetResumptionToken

SpecCodec == InitCodec /\ [][NextCodec]_vars

\* The value a parameter list gives to a name (None when it gives none).
Lookup(pairs, name) ==
    LET at == {i \in 1..Len(pairs) : pairs[i][1] = name}
    IN IF at = {} THEN None ELSE pairs[CHOOSE i \in at : TRUE][2]

\* C3: _get_resumption_token raises ExpiredResumptionToken only when the
\* store has a Datestamp and Datestamp >= token date, and, for a token
\* that reaches the date check, whenever that is so; a token dated after
\* the Datestamp, or met by a store without Datestamp, is never rejected
\* as expired.
C3_ExpiryPredicate ==
    (pc = "return" /\ call.fn = "_get_resumption_token") =>
        LET date == Field(TokenIn(call.params), "date")
            readable == date.k = "str" /\ date.s \in {DayLayout, SecLayout}
            old == datestamp # NoDate /\ datestamp >= Instant(date)
        IN /\ ret.exc = ExpiredResumptionToken => (readable /\ old)
           /\ (ValidToken(call.params) /\ old)
                 => ret.exc = ExpiredResumptionToken
           /\ (ValidToken(call.params) /\ ~old)
                 => (ret.exc = NoExc /\ ret.present)

\* A token dated at the very second of the Datestamp was rejected as
\* expired.
C3_Witness ==
    /\ pc = "return" /\ call.fn = "_get_resumption_token"
    /\ ValidToken(call.params)
    /\ datestamp = Instant(Field(TokenIn(call.params), "date"))
    /\ ret.exc = ExpiredResumptionToken

\* C5: the token _create_resumption_token makes of a parameter set, an
\* offset and an issue time, sent back with the same verb to a store whose
\* Datestamp is before the issue time, decodes, and its fields verb,
\* metadataPrefix, offset, date, from, until and set are the encoded ones.
C5_RoundTrip ==
    (/\ pc = "return" /\ call.fn = "_get_resumption_token"
     /\ call.made # NotMade
     /\ Str(VerbOf(call.params)) = Lookup(call.made.params.pairs, "verb")
     /\ datestamp < call.made.time)
    => /\ ret.exc = NoExc
       /\ ret.present
       /\ Len(ret.token.pairs) = 7
       /\ \A name \in {"verb", "metadataPrefix", "from", "until", "set"} :
              Lookup(ret.token.pairs, name)
                = Lookup(call.made.params.pairs, name)
       /\ Lookup(ret.token.pairs, "offset") = call.made.offset
       /\ Lookup(ret.token.pairs, "date").s = SecLayout
       /\ Instant(Lookup(ret.token.pairs, "date")) = call.made.time

\* A token made of a full parameter set came back whole, the Datestamp one
\* second before its issue time.
C5_Witness ==
    /\ pc = "return" /\ call.fn = "_get_resumption_token"
    /\ call.made # NotMade
    /\ datestamp # NoDate /\ datestamp + 1 = call.made.time
    /\ ret.exc = NoExc /\ ret.present
    /\ Lookup(ret.token.pairs, "from") # None
    /\ Lookup(ret.token.pairs, "set") = Str("s")
    /\ Lookup(ret.token.pairs, "offset") = Str(Identifiers[2])

(***************************************************************************)
(* SpecStore: listing and GetRecord requests, and the replay of the tokens *)
(* handed out, against stores of every size up to MaxRecords.              *)
(***************************************************************************)
Min(a, b) == IF a <= b THEN a ELSE b

\* A store of the first n items.  Item i has an oai_dc record stamped on
\* day i - 1 (at most MaxDay); with `tomb`, the last item and its record
\* are deleted; the format ead is in state `ead`, and when it is known the
\* first item has a record in it; with sets, the first item is in "s".
StoreOf(n, tomb, ead, setlist) ==
    /\ sets = setlist
    /\ items = [i \in IdentifierSet |->
                  [state |-> IF Position(i) > n THEN "absent"
                             ELSE IF tomb /\ Position(i) = n THEN "deleted"
                             ELSE "live",
                   sets |-> IF Position(i) = 1 /\ n >= 1 THEN setlist
                            ELSE {}]]
    /\ formats = [p \in Prefixes |-> IF p = "oai_dc" THEN "live" ELSE ead]
    /\ records = [r \in IdentifierSet \X Prefixes |->
                    [state |->
                        IF Position(r[1]) > n THEN "absent"
                        ELSE IF r[2] = "oai_dc"
                        THEN (IF tomb /\ Position(r[1]) = n THEN "deleted"
                              ELSE "live")
                        ELSE IF ead # "absent" /\ Position(r[1]) = 1
                        THEN ead
                        ELSE "absent",
                     datestamp |->
                        Min(Position(r[1]) - 1, MaxDay) * DaySeconds]]
    /\ datestamp = NoDatestamp

\* Requests a client may write for a listing.
ListingRequests ==
    {MultiDict(<< <<"verb", Str("ListRecords")>> >> \o m \o f \o u \o z)
        : m \in Optional("metadataPrefix",
                         {Str("oai_dc"), Str("ead"), Str("marc")}),
          f \in Optional("from", {DayStr(1), Str("yesterday")}),
          u \in Optional("until", {DayStr(0), SecStr(DaySeconds)}),
          z \in Optional("set", {Str("s")})}
      \cup {Request2("ListIdentifiers", "metadataPrefix", Str("oai_dc"),
                     "identifier", Str(Identifiers[1]))}

\* Tokens a client may write that pass decoding, with fields of every kind.
StoreTokens ==
    {TokenOf(Str("ListRecords"), m, o, SecStr(ClockStart), f, u, z)
        : m \in {Str("oai_dc"), Str("marc"), None},
          o \in {Str(Identifiers[2]), Str("zz")},
          f \in {None, DayStr(1)},
          u \in {None, DayStr(0)},
          z \in {None, Str("s")}}
      \cup UNION {
            {json_dumps(Dict(Without(t.j, "set"))),
             json_dumps(Dict(t.j \o << <<"identifier", Str("a")>> >>)),
             json_dumps(Dict(t.j \o << <<"offset", Str(IllegalText)>> >>))}
              : t \in {TokenOf(Str("ListRecords"), Str("oai_dc"),
                               Str(Identifiers[1]), SecStr(ClockStart),
                               None, None, None)}}

\* Requests a client may write for one record.
GetRecordRequests ==
    {MultiDict(<< <<"verb", Str("GetRecord")>> >> \o i \o m)
        : i \in Optional("identifier",
                         {Str(Identifiers[1]), Str(Identifiers[2]),
                          Str("zz")}),
          m \in Optional("metadataPrefix",
                         {Str("oai_dc"), Str("ead"), Str("marc")})}

StoreRequests ==
    ListingRequests
      \cup {Request1("ListRecords", "resumptionToken", t) : t \in StoreTokens}
      \cup GetRecordRequests

InitStore ==
    /\ \E n \in 0..MaxRecords, tomb \in BOOLEAN,
          ead \in {"absent", "live", "deleted"}, setlist \in {{}, SetSpecs} :
          StoreOf(n, tomb, ead, setlist)
    /\ \E limit \in 1..MaxLimit, deleted \in {"no", "persistent"} :
          settings = [item_list_limit |-> limit, deleted_records |-> deleted]
    /\ clock = ClockStart
    /\ pc = "idle"
    /\ request = NoRequest
    /\ response = NoResponse
    /\ issued = NoToken
    /\ call = [fn |-> "none"]
    /\ ret = NoExc

NextStore ==
    \/ Receive(StoreRequests)
    \/ Replay(ListVerbs)
    \/ Respond

SpecStore == InitStore /\ [][NextStore]_vars

(***************************************************************************)
(* What the claims say of a listing, stated on the request's text and on   *)
(* the rows of the store.                                                  *)
(***************************************************************************)
\* The value a listing request asks for under a name: the field of its
\* token when it carries one, else its argument.
Asked(params, name) ==
    IF Carries(params, "resumptionToken") THEN Field(TokenIn(params), name)
    ELSE Lookup(params.pairs, name)

\* The names a request gives, and those a token's text gives.
NamesOf(pairs) == {pairs[i][1] : i \in 1..Len(pairs)}
TokenFields ==
    {"verb", "metadataPrefix", "offset", "date", "from", "until", "set"}

\* A listing request whose arguments are those of section 4.1: a token
\* alone, with all of its fields and no other, or a metadataPrefix with
\* from, until and set at most once each; no illegal characters.
Shaped(params) ==
    IF Carries(params, "resumptionToken")
    THEN /\ ValidToken(params)
         /\ NamesOf(TokenIn(params).j) = TokenFields
         /\ \A name \in TokenFields :
                Field(TokenIn(params), name).s # IllegalText
    ELSE /\ VerbOf(params) # "(none)"
         /\ UniqueNames(params.pairs)
         /\ "metadataPrefix" \in NamesOf(params.pairs)
         /\ NamesOf(params.pairs)
              \subseteq {"verb", "metadataPrefix", "from", "until", "set"}
         /\ \A i \in 1..Len(params.pairs) :
                params.pairs[i][2].s # IllegalText

\* Whether deleted rows are hidden from requests.
HidesDeleted == settings.deleted_records = "no"

\* The last instant a datestamp text names (a day: its 23:59:59).
LastInstant(date) ==
    IF date.s = DayLayout THEN date.n * DaySeconds + EndOfDay ELSE date.n

\* A shaped listing request that selects records: its prefix is a format
\* of the store, its from and until are datestamps of one granularity, from
\* not after until, and it names a set only when the store has sets.
Selects(params) ==
    LET prefix == Asked(params, "metadataPrefix")
        from == Asked(params, "from")
        until == Asked(params, "until")
    IN /\ Shaped(params)
       /\ prefix.k = "str" /\ prefix.s \in Prefixes
       /\ Visible(formats[prefix.s], HidesDeleted)
       /\ from # None => Parseable(from)
       /\ until # None => Parseable(until)
       /\ (from # None /\ until # None)
             => (from.s = until.s /\ NotAfter(from, until))
       /\ Asked(params, "set") # None => sets # {}

\* The identifiers of the records such a request selects, from its offset.
Matching(params) ==
    LET prefix == Asked(params, "metadataPrefix").s
        from == Asked(params, "from")
        until == Asked(params, "until")
        set_ == Asked(params, "set")
        offset == Asked(params, "offset")
    IN {id \in IdentifierSet :
          /\ Visible(records[<<id, prefix>>].state, HidesDeleted)
          /\ from # None => records[<<id, prefix>>].datestamp >= Instant(from)
          /\ until # None
                => records[<<id, prefix>>].datestamp <= LastInstant(until)
          /\ set_ # None => set_.s \in items[id].sets
          /\ offset # None => Position(id) >= Position(offset.s)}

\* The identifiers of the records of a response.
Listed(records_) == {records_[i].identifier : i \in 1..Len(records_)}

\* C2: a listing that selects N records from its offset, under the limit
\* of the settings: with N > limit the response holds exactly limit records
\* (the first ones) and a token that is neither None nor empty; with
\* 1 <= N <= limit it holds all N records, and its token is None when the
\* request carried no token and the empty string when it did; with N = 0
\* and no token the answer is NoRecordsMatch.
C2_Lookahead ==
    (/\ response.kind # "none"
     /\ VerbOf(response.params) \in ListVerbs
     /\ Selects(response.params))
    => LET found == Matching(response.params)
           N == Cardinality(found)
           limit == settings.item_list_limit
           replay == Carries(response.params, "resumptionToken")
       IN /\ N > limit =>
                /\ response.kind = "result"
                /\ Len(response.records) = limit
                /\ Listed(response.records) \subseteq found
                /\ \A id \in found \ Listed(response.records) :
                      \A shown \in Listed(response.records) :
                          Position(shown) < Position(id)
                /\ response.token.k = "str"
                /\ response.token # Str("")
          /\ (N >= 1 /\ N <= limit) =>
                /\ response.kind = "result"
                /\ Len(response.records) = N
                /\ Listed(response.records) = found
                /\ response.token = IF replay THEN Str("") ELSE None
          /\ (N = 0 /\ ~replay) => response.exc = NoRecordsMatch

\* The token of a full page was sent back and the rest, exactly one more
\* page of `limit` records, came with the empty token.
C2_Witness ==
    /\ response.kind = "result"
    /\ VerbOf(response.params) \in ListVerbs
    /\ response.replayed # NoDate
    /\ Selects(response.params)
    /\ Cardinality(Matching(response.params)) = settings.item_list_limit
    /\ Len(response.records) = settings.item_list_limit
    /\ response.token = Str("")

\* C6: a ListIdentifiers or ListRecords request whose token passed decoding
\* returns records or fails with InvalidResumptionToken; it fails so when a
\* token field is missing or extra or has illegal characters, the prefix is
\* unsupported, from or until is bad, a set is named in a store without
\* sets, or no record matches; the codes badArgument,
\* cannotDisseminateFormat, noSetHierarchy and noRecordsMatch are never
\* emitted.
C6_ReplayErrorsRemapped ==
    (/\ response.kind # "none"
     /\ VerbOf(response.params) \in ListVerbs
     /\ ValidToken(response.params)
     /\ datestamp # NoDate
           => Instant(Field(TokenIn(response.params), "date")) > datestamp)
    => /\ response.kind \in {"result", "error"}
       /\ response.kind = "error" => response.exc = InvalidResumptionToken
       /\ code(response.exc) \notin {"badArgument", "cannotDisseminateFormat",
                                     "noSetHierarchy", "noRecordsMatch"}
       /\ (~Selects(response.params) \/ Matching(response.params) = {})
             => response.exc = InvalidResumptionToken

\* A token that names a set was replayed to a store without sets, its other
\* fields good, and answered InvalidResumptionToken.
C6_Witness ==
    /\ response.kind = "error"
    /\ VerbOf(response.params) \in ListVerbs
    /\ Shaped(response.params)
    /\ Carries(response.params, "resumptionToken")
    /\ Asked(response.params, "metadataPrefix") = Str("oai_dc")
    /\ Asked(response.params, "from") = None
    /\ Asked(response.params, "set") # None
    /\ sets = {}
    /\ response.exc = InvalidResumptionToken

\* A GetRecord request of one identifier and one metadataPrefix, no
\* illegal characters.
GetRecordShaped(params) ==
    /\ VerbOf(params) = "GetRecord"
    /\ UniqueNames(params.pairs)
    /\ NamesOf(params.pairs) = {"verb", "identifier", "metadataPrefix"}
    /\ \A i \in 1..Len(params.pairs) : params.pairs[i][2].s # IllegalText

\* C10: GetRecord, its parameters valid: an identifier that is no item of
\* the store yields IdDoesNotExist whatever the prefix; for an item of the
\* store, a prefix that is a format of the store without a record of the
\* item yields UnavailableMetadataFormat (cannotDisseminateFormat) naming
\* prefix and identifier; a record is returned only when the pair has a
\* record, and is that one record.
C10_GetRecordPrecedence ==
    (response.kind # "none" /\ VerbOf(response.params) = "GetRecord")
    => LET id == Lookup(response.params.pairs, "identifier")
           prefix == Lookup(response.params.pairs, "metadataPrefix")
           shaped == GetRecordShaped(response.params)
           known == /\ id.s \in IdentifierSet
                    /\ Visible(items[id.s].state, HidesDeleted)
           supported == /\ prefix.s \in Prefixes
                        /\ Visible(formats[prefix.s], HidesDeleted)
           has == Visible(records[<<id.s, prefix.s>>].state, HidesDeleted)
       IN /\ (shaped /\ ~known) =>
                /\ response.exc = IdDoesNotExist(id)
                /\ code(response.exc) = "idDoesNotExist"
          /\ (shaped /\ known /\ supported /\ ~has) =>
                /\ response.exc = UnavailableMetadataFormat(prefix, id)
                /\ code(response.exc) = "cannotDisseminateFormat"
          /\ response.kind = "result" =>
                /\ shaped /\ known /\ supported /\ has
                /\ response.records
                     = << [identifier |-> id.s, prefix |-> prefix.s] >>
          /\ (shaped /\ known /\ supported /\ has)
                => response.kind = "result"

\* GetRecord named an identifier that is no item and a prefix that is no
\* format, and answered IdDoesNotExist.
C10_Witness ==
    /\ response.kind = "error"
    /\ GetRecordShaped(response.params)
    /\ Lookup(response.params.pairs, "identifier") = Str("zz")
    /\ Lookup(response.params.pairs, "metadataPrefix") = Str("marc")
    /\ response.exc.cls = "IdDoesNotExist"

\* The response holds some records and a token to continue with.
Truncated ==
    /\ response.kind = "result"
    /\ VerbOf(response.params) \in ListVerbs
    /\ response.records # <<>>
    /\ response.token.k = "str"
    /\ response.token # Str("")

\* C19 as stated: the offset of the token of a truncated listing is the
\* identifier of the last record of the response.
C19_OffsetIsLastEmitted ==
    Truncated =>
        Field(response.token, "offset")
          = Str(response.records[Len(response.records)].identifier)

\* C19 amended: the offset of the token of a truncated listing is the
\* identifier of the first matching record that the response does not
\* hold: the record fetched in excess of the limit, which follows the last
\* record of the response in identifier order.
C19_OffsetIsNextRecord ==
    (Truncated /\ Selects(response.params)) =>
        LET last == response.records[Len(response.records)].identifier
            rest == {id \in Matching(response.params) :
                        Position(id) > Position(last)}
            offset == Field(response.token, "offset")
        IN /\ offset.k = "str"
           /\ offset.s \in rest
           /\ \A id \in rest : Position(offset.s) <= Position(id)
           /\ offset.s \notin Listed(response.records)

\* A replayed token gave a page that is truncated again: its token names
\* the record after the page.
C19_Witness ==
    /\ Truncated
    /\ response.replayed # NoDate
    /\ Selects(response.params)
    /\ Position(Field(response.token, "offset").s)
         = Position(response.records[Len(response.records)].identifier) + 1

(***************************************************************************)
(* kuha/models as the harvester uses it (not among the sources; modelled   *)
(* from sections 3 and 6 of the specification).  The rows of the store are *)
(* one value, [items, formats, records, sets]; a mutating call is the      *)
(* tuple <<name, argument, argument>> that a mock of the tests records.    *)
(***************************************************************************)
Rows == [items |-> items, formats |-> formats, records |-> records,
         sets |-> sets]

\* The rows of a state left by deletion: deleted rows are removed.
Purged(state) == IF state = "deleted" THEN "absent" ELSE state

\* The rows after one mutating call made at time `now`.
Apply(rows, called, now) ==
    LET name == called[1]
        a1 == called[2]
        a2 == called[3]
    IN CASE name = "Item.create_or_update" ->
              [rows EXCEPT !.items[a1].state = "live"]
         [] name = "item.mark_as_deleted" ->
              [rows EXCEPT !.items[a1].state = "deleted"]
         [] name = "Format.create_or_update" ->
              [rows EXCEPT !.formats[a1] = "live"]
         [] name = "format.mark_as_deleted" ->
              [rows EXCEPT !.formats[a1] = "deleted"]
         [] name = "Record.create_or_update" ->
              [rows EXCEPT !.records[<<a1, a2>>] =
                               [state |-> "live", datestamp |-> now]]
         [] name = "Record.mark_as_deleted" ->
              [rows EXCEPT !.records[<<a1, a2>>] =
                               [state |-> "deleted", datestamp |-> now]]
         [] name = "item.clear_sets" ->
              [rows EXCEPT !.items[a1].sets = {}]
         [] name = "Set.create_or_update" ->
              [rows EXCEPT !.sets = @ \cup {a1}]
         [] name = "item.add_to_set" ->
              [rows EXCEPT !.items[a1].sets = @ \cup {a2}]
         [] name = "purge_deleted" ->
              [rows EXCEPT
                 !.items = [i \in DOMAIN @ |->
                              [@[i] EXCEPT !.state = Purged(@)]],
                 !.formats = [f \in DOMAIN @ |-> Purged(@[f])],
                 !.records = [r \in DOMAIN @ |->
                                [@[r] EXCEPT !.state = Purged(@)]]]
         [] OTHER -> rows

\* The rows after a sequence of mutating calls.
RECURSIVE Effect(_, _, _)
Effect(rows, calls, now) ==
    IF calls = <<>> THEN rows
    ELSE Effect(Apply(rows, Head(calls), now), Tail(calls), now)

\* Item.list(ignore_deleted=True) and Format.list(ignore_deleted=True):
\* the identifiers and the prefixes of the rows that are not deleted.
Item_list(rows) ==
    {i \in DOMAIN rows.items : rows.items[i].state = "live"}
Format_list_live(rows) ==
    {f \in DOMAIN rows.formats : rows.formats[f] = "live"}

\* The elements of a set of identifiers as a list, in ascending order.
RECURSIVE Sorted(_)
Sorted(ids) ==
    IF ids = {} THEN <<>>
    ELSE LET first == CHOOSE i \in ids :
                          \A j \in ids : Position(i) <= Position(j)
         IN <<first>> \o Sorted(ids \ {first})

\* One call for each element of a list.
CallEach(name, list, a2) ==
    [i \in 1..Len(list) |-> <<name, list[i], a2>>]

\* How often a call occurs among the calls made.
Times(calls, called) ==
    Cardinality({i \in 1..Len(calls) : calls[i] = called})

(***************************************************************************)
(* kuha/importer/harvest.py (not among the sources; modelled from section  *)
(* 4.5 of the specification and from the calls and results that            *)
(* kuha/test/importer/test_harvest.py expects).  A harvest operation gives *)
(* [exc, result, calls, removed, added, updated]: what it raises, what it  *)
(* returns, the mutating calls it made and the counts of its summary.      *)
(***************************************************************************)
\* exception.py: HarvestError, carrying a message.
HarvestError(msg) == Exc("HarvestError", msg, "", "")

\* An operation that raised before it called anything.
Failed(msg) ==
    [exc |-> HarvestError(msg), result |-> {}, calls |-> <<>>,
     removed |-> 0, added |-> 0, updated |-> 0]

\* An object whose __str__ raises TypeError('conversion failed').
InvalidId == [k |-> "object", s |-> "conversion failed", n |-> 0, j |-> <<>>]

\* What a provider call gave: msg is the message of the exception it
\* raised ("" when it returned), value is what it returned.
Gave(value) == [msg |-> "", value |-> value]
Raised(msg) == [msg |-> msg, value |-> <<>>]

\* Variants of marks_missing: the rows are never marked, or only if purge.
marks_missing_never(purge, dry_run) == FALSE
marks_missing_if_purge(purge, dry_run) == purge /\ ~dry_run

\* test_no_identifiers, test_dry_run: whether the rows of the store that
\* the provider no longer lists are marked as deleted.  With purge=False
\* they are; in a dry run they are not.
marks_missing(purge, dry_run) == ~dry_run

\* test_successful_update, test_dry_run: whether purge_deleted is called.
purges(purge, dry_run) == purge /\ ~dry_run

\* The calls that end update_formats and update_items.
Closing(purge, dry_run) ==
    (IF purges(purge, dry_run) THEN << <<"purge_deleted", "", "">> >>
     ELSE <<>>)
      \o (IF dry_run THEN <<>> ELSE << <<"commit", "", "">> >>)

\* The identifiers of a provider's list, each once.
distinct(list) == {list[i].s : i \in 1..Len(list)}

\* Variant of upserted: the identifiers as the provider lists them.
upserted_as_listed(list) == [i \in 1..Len(list) |-> list[i].s]

\* test_duplicate_identifiers: the identifiers that update_items gives to
\* Item.create_or_update, each distinct identifier of the list once.
upserted(list) == Sorted(distinct(list))

\* Variant of update_items that converts and upserts the identifiers one
\* by one: it has upserted those before the one that cannot be converted.
update_items_one_by_one(rows, provided, purge, dry_run) ==
    IF provided.msg # "" THEN Failed(provided.msg)
    ELSE IF \E i \in 1..Len(provided.value) : provided.value[i].k # "str"
    THEN With(CHOOSE i \in 1..Len(provided.value) :
                  /\ provided.value[i].k # "str"
                  /\ \A k \in 1..(i - 1) : provided.value[k].k = "str",
              LAMBDA bad :
         [Failed(InvalidId.s) EXCEPT
            !.calls = IF dry_run THEN <<>>
                      ELSE CallEach("Item.create_or_update",
                                    upserted(SubSeq(provided.value, 1,
                                                    bad - 1)), "")])
    ELSE With(distinct(provided.value), LAMBDA new :
         With(Item_list(rows), LAMBDA old :
         [exc |-> NoExc,
          result |-> new,
          calls |->
              (IF marks_missing(purge, dry_run)
               THEN CallEach("item.mark_as_deleted", Sorted(old \ new), "")
               ELSE <<>>)
                \o (IF dry_run THEN <<>>
                    ELSE CallEach("Item.create_or_update",
                                  upserted(provided.value), ""))
                \o Closing(purge, dry_run),
          removed |-> Cardinality(old \ new),
          added |-> Cardinality(new \ old),
          updated |-> 0]))

\* update_items(provider, purge, dry_run) on the rows of the store;
\* `provided` is what provider.identifiers() gave.
update_items(rows, provided, purge, dry_run) ==
    IF provided.msg # "" THEN Failed(provided.msg)
    ELSE IF \E i \in 1..Len(provided.value) : provided.value[i].k # "str"
    THEN Failed(InvalidId.s)
    ELSE With(distinct(provided.value), LAMBDA new :
         With(Item_list(rows), LAMBDA old :
         [exc |-> NoExc,
          result |-> new,
          calls |->
              (IF marks_missing(purge, dry_run)
               THEN CallEach("item.mark_as_deleted", Sorted(old \ new), "")
               ELSE <<>>)
                \o (IF dry_run THEN <<>>
                    ELSE CallEach("Item.create_or_update",
                                  upserted(provided.value), ""))
                \o Closing(purge, dry_run),
          removed |-> Cardinality(old \ new),
          added |-> Cardinality(new \ old),
          updated |-> 0]))

\* An entry of the mapping that provider.formats() returns: a pair
\* (namespace, schema), or a value that is no pair.
FormatPair == "(namespace, schema)"
NoFormatPair == "invalid"

\* update_formats(provider, purge, dry_run) on the rows of the store;
\* `provided` is what provider.formats() gave: a mapping from prefixes to
\* entries.
update_formats(rows, provided, purge, dry_run) ==
    IF provided.msg # "" THEN Failed(provided.msg)
    ELSE IF DOMAIN provided.value = {} THEN Failed("no formats")
    ELSE IF \E f \in DOMAIN provided.value : provided.value[f] # FormatPair
    THEN Failed("too many values to unpack")
    ELSE With(DOMAIN provided.value, LAMBDA new :
         With(Format_list_live(rows), LAMBDA old :
         [exc |-> NoExc,
          result |-> new,
          calls |->
              (IF marks_missing(purge, dry_run)
               THEN CallEach("format.mark_as_deleted", Sorted(old \ new), "")
               ELSE <<>>)
                \o (IF dry_run THEN <<>>
                    ELSE CallEach("Format.create_or_update", Sorted(new),
                                  ""))
                \o Closing(purge, dry_run),
          removed |-> Cardinality(old \ new),
          added |-> Cardinality(new \ old),
          updated |-> 0]))

\* The set specs of the model in ascending order of their text.
SetSpecNames == <<"s", "s:t", "s:t:u">>

\* A variant that leaves the list in the provider's order.
SortedSpecs_as_given(list, i) == IF i > 1 THEN <<>> ELSE list

\* sorted(list) of a list of set specs.
RECURSIVE SortedSpecs(_, _)
SortedSpecs(list, i) ==
    IF i > Len(SetSpecNames) THEN <<>>
    ELSE SelectSeq(list, LAMBDA spec : spec = SetSpecNames[i])
           \o SortedSpecs(list, i + 1)

\* The lists of a list, one after the other.
RECURSIVE Concat(_)
Concat(lists) ==
    IF lists = <<>> THEN <<>> ELSE Head(lists) \o Concat(Tail(lists))

\* What update_records and update_sets give besides: the calls they made
\* to the provider and the messages they logged.
\* `trace` is all of it in the order it happened: the calls to the
\* provider, the mutating calls and the calls of update_sets.
Done(exc, calls, updated, asked, logged, trace) ==
    [exc |-> exc, result |-> {}, calls |-> calls, removed |-> 0,
     added |-> 0, updated |-> updated, asked |-> asked, logged |-> logged,
     trace |-> trace]

\* A variant that adds the item to the sets without clearing its
\* membership first.
sets_calls_adds_only(provided, identifier, dry_run) ==
    IF dry_run THEN <<>>
    ELSE Concat([i \in 1..Len(provided.value) |->
                << <<"Set.create_or_update",
                     SortedSpecs(provided.value, 1)[i], "">>,
                   <<"item.add_to_set", identifier,
                     SortedSpecs(provided.value, 1)[i]>> >>])

\* update_sets, the mutating calls once get_sets has given its list: the
\* item's membership is cleared, then each set is stored and the item added
\* to it, in ascending order of the specs.
sets_calls(provided, identifier, dry_run) ==
    IF dry_run THEN <<>>
    ELSE << <<"item.clear_sets", identifier, "">> >>
           \o Concat([i \in 1..Len(provided.value) |->
                << <<"Set.create_or_update",
                     SortedSpecs(provided.value, 1)[i], "">>,
                   <<"item.add_to_set", identifier,
                     SortedSpecs(provided.value, 1)[i]>> >>])

\* update_sets(provider, identifier, dry_run); `provided` is what
\* provider.get_sets(identifier) gave: a list of set specs.  An error of
\* the provider is the caller's to handle.
update_sets(provided, identifier, dry_run) ==
    IF provided.msg # ""
    THEN Done(Exc("ValueError", provided.msg, "", ""), <<>>, 0,
              << <<"get_sets", identifier, "">> >>, <<>>,
              << <<"get_sets", identifier, "">> >>)
    ELSE Done(NoExc, sets_calls(provided, identifier, dry_run),
              0, << <<"get_sets", identifier, "">> >>, <<>>,
              << <<"get_sets", identifier, "">> >>
                \o sets_calls(provided, identifier, dry_run))

\* The outcomes of provider.get_record(identifier, prefix): it returns
\* None, raises, or returns a payload.
Tombstone == "None"
Crosswalk == "crosswalk error"
Payload == "<xml ... />"

\* A variant that takes a failed dissemination for a deleted record.
record_calls_failure_deletes(identifier, prefix, got, dry_run) ==
    IF dry_run THEN <<>>
    ELSE IF got \in {Tombstone, Crosswalk}
    THEN << <<"Record.mark_as_deleted", identifier, prefix>> >>
    ELSE << <<"Record.create_or_update", identifier, prefix>>,
            <<"commit", "", "">> >>

\* A variant that stores a record for a pair the provider has deleted.
record_calls_stores_deleted(identifier, prefix, got, dry_run) ==
    IF dry_run \/ got = Crosswalk THEN <<>>
    ELSE << <<"Record.create_or_update", identifier, prefix>>,
            <<"commit", "", "">> >>

\* A variant that commits after marking a record deleted, too.
record_calls_commits_deleted(identifier, prefix, got, dry_run) ==
    IF dry_run \/ got = Crosswalk THEN <<>>
    ELSE IF got = Tombstone
    THEN << <<"Record.mark_as_deleted", identifier, prefix>>,
            <<"commit", "", "">> >>
    ELSE << <<"Record.create_or_update", identifier, prefix>>,
            <<"commit", "", "">> >>

\* update_records, one (identifier, prefix) pair whose get_record gave
\* `got`: the mutating calls made for it.
record_calls(identifier, prefix, got, dry_run) ==
    IF dry_run \/ got = Crosswalk THEN <<>>
    ELSE IF got = Tombstone
    THEN << <<"Record.mark_as_deleted", identifier, prefix>> >>
    ELSE << <<"Record.create_or_update", identifier, prefix>>,
            <<"commit", "", "">> >>

\* A variant that skips no identifier.
skipped_never(provider, identifier, since) == FALSE

\* update_records, one identifier: whether it is skipped, and what is
\* done, asked and logged for it.  `provider` is [changed, get_record,
\* get_sets]: the identifiers for which has_changed is true, the outcome of
\* get_record for each pair, and what get_sets gives.
skipped(provider, identifier, since) ==
    since # NoDate /\ identifier \notin provider.changed

\* A variant that takes an identifier all of whose fetches failed for
\* processed.
processed_always(provider, identifier, prefixes) == TRUE

\* An identifier is processed when the fetch of one of its pairs did not
\* fail.
processed(provider, identifier, prefixes) ==
    \E i \in 1..Len(prefixes) :
        provider.get_record[<<identifier, prefixes[i]>>] # Crosswalk

\* A variant that does not pass dry_run on to update_sets.
item_calls_sets_live(provider, identifier, prefixes, since, dry_run) ==
    IF skipped(provider, identifier, since) THEN <<>>
    ELSE Concat([i \in 1..Len(prefixes) |->
                   record_calls(identifier, prefixes[i],
                       provider.get_record[<<identifier, prefixes[i]>>],
                       dry_run)])
           \o (IF processed(provider, identifier, prefixes)
               THEN update_sets(provider.get_sets, identifier, FALSE).calls
               ELSE <<>>)

item_calls(provider, identifier, prefixes, since, dry_run) ==
    IF skipped(provider, identifier, since) THEN <<>>
    ELSE Concat([i \in 1..Len(prefixes) |->
                   record_calls(identifier, prefixes[i],
                       provider.get_record[<<identifier, prefixes[i]>>],
                       dry_run)])
           \o (IF processed(provider, identifier, prefixes)
               THEN update_sets(provider.get_sets, identifier,
                                dry_run).calls
               ELSE <<>>)

item_asked(provider, identifier, prefixes, since) ==
    (IF since # NoDate THEN << <<"has_changed", identifier, "">> >>
     ELSE <<>>)
      \o (IF skipped(provider, identifier, since) THEN <<>>
          ELSE [i \in 1..Len(prefixes) |->
                   <<"get_record", identifier, prefixes[i]>>]
                 \o (IF processed(provider, identifier, prefixes)
                     THEN << <<"get_sets", identifier, "">> >>
                     ELSE <<>>))

item_logged(provider, identifier, prefixes, since) ==
    IF skipped(provider, identifier, since)
    THEN << <<"Skipping item", identifier, "">> >>
    ELSE SelectSeq([i \in 1..Len(prefixes) |->
                      <<"Failed to disseminate format", prefixes[i],
                        identifier>>],
                   LAMBDA line :
                      provider.get_record[<<identifier, line[2]>>]
                        = Crosswalk)
           \o (IF processed(provider, identifier, prefixes)
                  /\ provider.get_sets.msg # ""
               THEN << <<"Failed to update item", identifier, "">> >>
               ELSE <<>>)

\* The value of dry_run as update_records passes it to update_sets.
Flag(dry_run) == IF dry_run THEN "True" ELSE "False"

\* A variant that commits once more when update_sets has returned.
item_trace_commits_sets(provider, identifier, prefixes, since, dry_run) ==
    (IF since # NoDate THEN << <<"has_changed", identifier, "">> >>
     ELSE <<>>)
      \o (IF skipped(provider, identifier, since) THEN <<>>
          ELSE Concat([i \in 1..Len(prefixes) |->
                         << <<"get_record", identifier, prefixes[i]>> >>
                           \o record_calls(identifier, prefixes[i],
                                 provider.get_record[
                                    <<identifier, prefixes[i]>>],
                                 dry_run)])
                 \o (IF processed(provider, identifier, prefixes)
                     THEN << <<"update_sets", identifier, Flag(dry_run)>> >>
                            \o update_sets(provider.get_sets, identifier,
                                           dry_run).trace
                            \o (IF dry_run THEN <<>>
                                ELSE << <<"commit", "", "">> >>)
                     ELSE <<>>))

\* update_records, one identifier, all of it in the order it happens:
\* has_changed when `since` is given; for each prefix get_record and the
\* calls made for the pair; then update_sets and what it does.
item_trace(provider, identifier, prefixes, since, dry_run) ==
    (IF since # NoDate THEN << <<"has_changed", identifier, "">> >>
     ELSE <<>>)
      \o (IF skipped(provider, identifier, since) THEN <<>>
          ELSE Concat([i \in 1..Len(prefixes) |->
                         << <<"get_record", identifier, prefixes[i]>> >>
                           \o record_calls(identifier, prefixes[i],
                                 provider.get_record[
                                    <<identifier, prefixes[i]>>],
                                 dry_run)])
                 \o (IF processed(provider, identifier, prefixes)
                     THEN << <<"update_sets", identifier, Flag(dry_run)>> >>
                            \o update_sets(provider.get_sets, identifier,
                                           dry_run).trace
                     ELSE <<>>))

\* update_records(provider, identifiers, prefixes, since, dry_run)
update_records(provider, identifiers, prefixes, since, dry_run) ==
    Done(NoExc,
         Concat([i \in 1..Len(identifiers) |->
                   item_calls(provider, identifiers[i], prefixes, since,
                              dry_run)]),
         Cardinality({pair \in DOMAIN provider.get_record :
                        /\ \E i \in 1..Len(identifiers) :
                              /\ identifiers[i] = pair[1]
                              /\ ~skipped(provider, pair[1], since)
                        /\ \E i \in 1..Len(prefixes) : prefixes[i] = pair[2]
                        /\ provider.get_record[pair] = Payload}),
         Concat([i \in 1..Len(identifiers) |->
                   item_asked(provider, identifiers[i], prefixes, since)]),
         Concat([i \in 1..Len(identifiers) |->
                   item_logged(provider, identifiers[i], prefixes, since)]),
         Concat([i \in 1..Len(identifiers) |->
                   item_trace(provider, identifiers[i], prefixes, since,
                              dry_run)]))

(***************************************************************************)
(* SpecHarvest: one harvest operation on a store of every kind, for every  *)
(* answer of the provider, live and as a dry run.                          *)
(***************************************************************************)
MaxIds == 3         \* longest list that provider.identifiers() returns

\* What provider.identifiers() may give: it raises, or returns a list of
\* identifiers, with repetitions, in any order, some not convertible.
IdentifierLists ==
    UNION {[1..n -> {Str(i) : i \in IdentifierSet} \cup {InvalidId}]
              : n \in 0..MaxIds}
ProvidedIdentifiers ==
    {Raised("abcabc")} \cup {Gave(list) : list \in IdentifierLists}

NoCall == [fn |-> "none"]

\* A store of any kind on which no harvest operation has run, and no
\* request is in flight.
Unharvested(deleted) ==
    /\ \/ EmptyStore
       \/ \E n \in 0..MaxRecords, tomb \in BOOLEAN,
             ead \in {"absent", "live", "deleted"},
             setlist \in {{}, SetSpecs} :
             StoreOf(n, tomb, ead, setlist)
    /\ settings = [item_list_limit |-> 1, deleted_records |-> deleted]
    /\ clock = ClockStart
    /\ pc = "idle"
    /\ request = NoRequest
    /\ response = NoResponse
    /\ issued = NoToken
    /\ call = NoCall
    /\ ret = NoExc

\* The harvest operations do not read the settings.
InitHarvest == Unharvested("no")

\* A harvest operation ran to its end: the store holds the rows its calls
\* left, `call` what it was given and the rows it found, `ret` what it
\* gave.
Ran(op, done) ==
    /\ pc = "idle"
    /\ call = NoCall
    /\ call' = [op EXCEPT !.before = Rows]
    /\ ret' = done
    /\ items' = Effect(Rows, done.calls, datestamp_now).items
    /\ formats' = Effect(Rows, done.calls, datestamp_now).formats
    /\ records' = Effect(Rows, done.calls, datestamp_now).records
    /\ sets' = Effect(Rows, done.calls, datestamp_now).sets
    /\ UNCHANGED <<datestamp, settings, clock, pc, request, response,
                   issued>>

UpdateItems ==
    /\ call = NoCall
    /\ \E provided \in ProvidedIdentifiers, purge \in BOOLEAN,
          dry_run \in BOOLEAN :
           Ran([fn |-> "update_items", provided |-> provided,
                purge |-> purge, dry_run |-> dry_run, before |-> Rows],
               update_items(Rows, provided, purge, dry_run))

\* What provider.formats() may give: it raises, or returns a mapping, empty
\* or with entries that are no pairs.
ProvidedFormats ==
    {Raised("some message")}
      \cup {Gave(mapping) : mapping \in
               UNION {[known -> {FormatPair, NoFormatPair}]
                         : known \in SUBSET Prefixes}}

UpdateFormats ==
    /\ call = NoCall
    /\ \E provided \in ProvidedFormats, purge \in BOOLEAN,
          dry_run \in BOOLEAN :
           Ran([fn |-> "update_formats", provided |-> provided,
                purge |-> purge, dry_run |-> dry_run, before |-> Rows],
               update_formats(Rows, provided, purge, dry_run))

MaxFetched == 2     \* most identifiers that update_records is given

\* What provider.get_sets(identifier) may give: it raises, or returns a
\* list of set specs in any order.
ProvidedSets ==
    {Raised("bad sets"), Gave(<<>>), Gave(<<"s:t", "s">>)}

\* The providers of a records run over `ids` and `prefixes`; has_changed
\* is consulted only when `since` is given.
Providers(ids, prefixes, since) ==
    [changed : IF since = NoDate THEN {ids} ELSE SUBSET ids,
     get_record : [ids \X prefixes -> {Tombstone, Crosswalk, Payload}],
     get_sets : ProvidedSets]

\* update_records on the identifiers and prefixes that update_items and
\* update_formats left in the store.
UpdateRecords ==
    /\ call = NoCall
    /\ \E n \in 0..MaxFetched,
          prefixes \in {<<"oai_dc">>, <<"oai_dc", "ead">>},
          since \in {NoDate, ClockStart}, dry_run \in BOOLEAN :
           /\ n <= Len(Identifiers)
           /\ {Identifiers[i] : i \in 1..n} \subseteq Item_list(Rows)
           /\ {prefixes[i] : i \in 1..Len(prefixes)}
                \subseteq Format_list_live(Rows)
           /\ \E provider \in Providers({Identifiers[i] : i \in 1..n},
                                 {prefixes[i] : i \in 1..Len(prefixes)},
                                 since) :
                 Ran([fn |-> "update_records", provided |-> provider,
                      purge |-> FALSE, dry_run |-> dry_run, before |-> Rows,
                      identifiers |-> SubSeq(Identifiers, 1, n),
                      prefixes |-> prefixes, since |-> since],
                     update_records(provider, SubSeq(Identifiers, 1, n),
                                    prefixes, since, dry_run))

MaxSets == 3        \* longest list that provider.get_sets() returns

\* The lists of set specs that get_sets may return: in any order, with
\* repetitions.
SetLists ==
    UNION {[1..n -> {SetSpecNames[i] : i \in 1..Len(SetSpecNames)}]
              : n \in 0..MaxSets}

UpdateSets ==
    /\ call = NoCall
    /\ \E identifier \in Item_list(Rows),
          provided \in {Raised("bad sets")}
                         \cup {Gave(list) : list \in SetLists},
          dry_run \in BOOLEAN :
           Ran([fn |-> "update_sets", provided |-> provided,
                purge |-> FALSE, dry_run |-> dry_run, before |-> Rows,
                identifier |-> identifier],
               update_sets(provided, identifier, dry_run))

NextHarvest ==
    \/ UpdateFormats
    \/ UpdateItems
    \/ UpdateRecords
    \/ UpdateSets

SpecHarvest == InitHarvest /\ [][NextHarvest]_vars

\* update_items returned (it did not raise).
ItemsUpdated == call.fn = "update_items" /\ ret.exc = NoExc

\* The identifiers a list of convertible identifiers names.
Named(list) == {list[i].s : i \in 1..Len(list)}

\* C11: for every list of identifiers the provider gives, with repetitions
\* and in any order, a live update_items calls Item.create_or_update
\* exactly once for each distinct identifier and for nothing else, and it
\* returns the set of the distinct identifiers (a dry run too).
C11_ItemsDeduplicated ==
    ItemsUpdated =>
        /\ ret.result = Named(call.provided.value)
        /\ ~call.dry_run =>
              /\ \A id \in Named(call.provided.value) :
                    Times(ret.calls, <<"Item.create_or_update", id, "">>) = 1
              /\ \A i \in 1..Len(ret.calls) :
                    ret.calls[i][1] = "Item.create_or_update"
                       => ret.calls[i][2] \in Named(call.provided.value)

\* A list that names an identifier twice and another between was synced:
\* two identifiers, each upserted once.
C11_Witness ==
    /\ ItemsUpdated /\ ~call.dry_run
    /\ Len(call.provided.value) = MaxIds
    /\ call.provided.value[1] = call.provided.value[MaxIds]
    /\ call.provided.value[1] # call.provided.value[2]
    /\ Cardinality(ret.result) = 2
    /\ Times(ret.calls, <<"Item.create_or_update",
                          call.provided.value[1].s, "">>) = 1

\* The items of the store that update_items found and that the provider
\* does not list.
Unlisted == Item_list(call.before) \ Named(call.provided.value)

\* C12 as stated: with purge=False update_items calls no item's
\* mark_as_deleted.
C12_MarkedOnlyIfPurge ==
    (ItemsUpdated /\ ~call.purge) =>
        \A i \in 1..Len(ret.calls) : ret.calls[i][1] # "item.mark_as_deleted"

\* C12 amended: a live update_items removes the store items that the
\* provider does not list only if purge is true: with purge=False they are
\* marked as deleted and stay in the store as deleted rows, and no row
\* leaves the store; with purge=True they leave the store.
C12_RemovedOnlyIfPurge ==
    (ItemsUpdated /\ ~call.dry_run) =>
        /\ ~call.purge =>
              /\ \A id \in Unlisted : items[id].state = "deleted"
              /\ \A id \in IdentifierSet :
                    call.before.items[id].state # "absent"
                       => items[id].state # "absent"
        /\ call.purge =>
              \A id \in Unlisted : items[id].state = "absent"

\* A live run with purge=False found an item the provider does not list
\* and left it in the store, deleted.
C12_Witness ==
    /\ ItemsUpdated /\ ~call.dry_run /\ ~call.purge
    /\ \E id \in Unlisted : items[id].state = "deleted"
    /\ Named(call.provided.value) # {}

\* C13: a live update_items calls mark_as_deleted exactly once on every
\* item of the store that the provider does not list, with purge=False
\* too, and never on an item that the provider lists; it calls
\* purge_deleted only when purge is true.
C13_MarksEveryUnlisted ==
    (ItemsUpdated /\ ~call.dry_run) =>
        /\ \A id \in Unlisted :
              Times(ret.calls, <<"item.mark_as_deleted", id, "">>) = 1
        /\ \A id \in Named(call.provided.value) :
              Times(ret.calls, <<"item.mark_as_deleted", id, "">>) = 0
        /\ Times(ret.calls, <<"purge_deleted", "", "">>) > 0 => call.purge

\* A live run with purge=False marked two items the provider does not
\* list and none of those it lists, one of them an item of the store.
C13_Witness ==
    /\ ItemsUpdated /\ ~call.dry_run /\ ~call.purge
    /\ Cardinality(Unlisted) = 2
    /\ Named(call.provided.value) \cap Item_list(call.before) # {}
    /\ Cardinality({i \in 1..Len(ret.calls) :
                       ret.calls[i][1] = "item.mark_as_deleted"}) = 2

\* The message of the failure that makes a top-level fetch fatal ("" when
\* the provider's answer is good), stated on the provider's answer.
FatalMessage ==
    IF call.provided.msg # "" THEN call.provided.msg
    ELSE IF call.fn = "update_formats"
    THEN (IF DOMAIN call.provided.value = {} THEN "no formats"
          ELSE IF NoFormatPair \in
                    {call.provided.value[f] : f \in DOMAIN call.provided.value}
          THEN "too many values to unpack"
          ELSE "")
    ELSE IF InvalidId \in
              {call.provided.value[i] : i \in 1..Len(call.provided.value)}
    THEN "conversion failed"
    ELSE ""

\* C14: when provider.formats() raises, returns an empty mapping or an
\* entry that is no pair, or provider.identifiers() raises or lists an
\* identifier that cannot be converted to a string, the operation raises
\* HarvestError with the original message, has called none of
\* create_or_update, mark_as_deleted, purge_deleted and commit, and the
\* store is as it was; otherwise it returns.
C14_FatalFetchLeavesStore ==
    (call.fn \in {"update_formats", "update_items"}) =>
        /\ FatalMessage # "" =>
              /\ ret.exc = HarvestError(FatalMessage)
              /\ ret.calls = <<>>
              /\ Rows = call.before
        /\ FatalMessage = "" => ret.exc = NoExc

\* A live update_items with purge met an identifier that cannot be
\* converted, after one that can, in a store with items: it raised, and
\* the store is as it was.
C14_Witness ==
    /\ call.fn = "update_items" /\ ~call.dry_run /\ call.purge
    /\ Len(call.provided.value) = MaxIds
    /\ call.provided.value[1].k = "str"
    /\ call.provided.value[2] = InvalidId
    /\ Item_list(call.before) # {}
    /\ call.provided.value[1].s \notin Item_list(call.before)
    /\ ret.exc = HarvestError("conversion failed")
    /\ Rows = call.before

\* A run of update_records has ended, and the pairs it was to fetch: those
\* of the identifiers it did not skip.
RecordsUpdated == call.fn = "update_records"

Fetched ==
    {pair \in DOMAIN call.provided.get_record :
        ~skipped(call.provided, pair[1], call.since)}

\* C15: update_records isolates the failure of a pair.  After a run that
\* was no dry run, a pair whose get_record returned None has one
\* Record.mark_as_deleted call and no upsert, a pair whose get_record
\* raised has neither, and a pair that got a payload has one
\* Record.create_or_update call; in every run get_record was called once
\* for every pair, whatever the pairs before it did, and nothing was
\* raised.
C15_PairFailureIsolated ==
    RecordsUpdated =>
        /\ ret.exc = NoExc
        /\ \A pair \in Fetched :
              /\ Times(ret.asked, <<"get_record", pair[1], pair[2]>>) = 1
              /\ ~call.dry_run =>
                    /\ Times(ret.calls,
                             <<"Record.mark_as_deleted", pair[1], pair[2]>>)
                         = (IF call.provided.get_record[pair] = Tombstone
                            THEN 1 ELSE 0)
                    /\ Times(ret.calls,
                             <<"Record.create_or_update", pair[1], pair[2]>>)
                         = (IF call.provided.get_record[pair] = Payload
                            THEN 1 ELSE 0)

\* A run that was no dry run, in which the first pair failed and a later
\* pair of the same identifier was deleted and one of the next identifier
\* stored.
C15_Witness ==
    /\ RecordsUpdated
    /\ ~call.dry_run
    /\ Len(call.identifiers) = 2
    /\ Len(call.prefixes) = 2
    /\ Fetched = DOMAIN call.provided.get_record
    /\ call.provided.get_record[<<call.identifiers[1], call.prefixes[1]>>]
         = Crosswalk
    /\ call.provided.get_record[<<call.identifiers[1], call.prefixes[2]>>]
         = Tombstone
    /\ call.provided.get_record[<<call.identifiers[2], call.prefixes[1]>>]
         = Payload
    /\ records[<<call.identifiers[1], call.prefixes[2]>>].state = "deleted"
    /\ records[<<call.identifiers[2], call.prefixes[1]>>].state = "live"

\* A harvest operation has ended.
Harvested ==
    call.fn \in {"update_formats", "update_items", "update_records",
                 "update_sets"}

\* The calls that change the store or commit.
Mutating ==
    {"Format.create_or_update", "format.mark_as_deleted",
     "Item.create_or_update", "item.mark_as_deleted",
     "Record.create_or_update", "Record.mark_as_deleted",
     "Set.create_or_update", "item.clear_sets", "item.add_to_set",
     "purge_deleted", "commit"}

\* C16: a dry run writes nothing.  Each of update_formats, update_items,
\* update_records and update_sets called with dry_run=True has made no
\* create_or_update, mark_as_deleted, purge_deleted, commit, clear_sets or
\* add_to_set call, update_sets inside update_records included, and has
\* left the store as it found it.
C16_DryRunWritesNothing ==
    (Harvested /\ call.dry_run) =>
        /\ \A i \in 1..Len(ret.calls) : ret.calls[i][1] \notin Mutating
        /\ Rows = call.before

\* A dry run of update_records that fetched a payload and the sets of its
\* item.
C16_Witness ==
    /\ RecordsUpdated
    /\ call.dry_run
    /\ ret.updated > 0
    /\ call.provided.get_sets.msg = ""
    /\ call.provided.get_sets.value # <<>>
    /\ \E i \in 1..Len(ret.asked) : ret.asked[i][1] = "get_sets"

\* The operation that has ended, run again on the rows it found and with
\* what the provider gave, as a dry run or as a live run.
Rerun(dry_run) ==
    CASE call.fn = "update_formats" ->
           update_formats(call.before, call.provided, call.purge, dry_run)
      [] call.fn = "update_items" ->
           update_items(call.before, call.provided, call.purge, dry_run)
      [] call.fn = "update_records" ->
           update_records(call.provided, call.identifiers, call.prefixes,
                          call.since, dry_run)

\* What a run reports: what it raises and returns, and the counts of its
\* summary.
Report(done) ==
    <<done.exc, done.result, done.removed, done.added, done.updated>>

\* The rows of an operation's table that are not deleted.
Listing(rows) ==
    IF call.fn = "update_formats" THEN Format_list_live(rows)
    ELSE Item_list(rows)

\* What a live run that gave `live` changes: the rows it leaves, and the
\* number of records it stores.
LiveRows(live) == Effect(call.before, live.calls, datestamp_now)

Stored(live) ==
    Cardinality({i \in 1..Len(live.calls) :
                    live.calls[i][1] = "Record.create_or_update"})

\* The counts of a report are the changes of the live run.
Faithful(dry, live) ==
    /\ Report(dry) = Report(live)
    /\ dry.exc = NoExc =>
          IF call.fn = "update_records"
          THEN dry.updated = Stored(live)
          ELSE With(Listing(LiveRows(live)), LAMBDA after :
                 /\ dry.removed
                      = Cardinality(Listing(call.before) \ after)
                 /\ dry.added
                      = Cardinality(after \ Listing(call.before)))

FormatRequests ==
    {MultiDict(<< <<"verb", Str("ListMetadataFormats")>> >> \o i)
        : i \in Optional("identifier", {Str(Identifiers[1]), Str("zz")})}

NextFormats ==
    \/ UpdateFormats
    \/ Receive(FormatRequests)
    \/ Respond

InitFormats == \E deleted \in {"no", "persistent"} : Unharvested(deleted)

SpecFormats == InitFormats /\ [][NextFormats]_vars

\* C20: ListMetadataFormats without an identifier never finds the list of
\* the repository's formats empty: in no reachable state, the store before
\* the first harvest included, does the assertion 'No metadata formats
\* supported' of handle_list_metadata_formats fail.
C20_FormatsNeverEmpty ==
    response.kind # "none" =>
        response.exc # AssertionError("No metadata formats supported")

\* The identifiers of a records run that have not changed since `since`.
NotChanged ==
    {call.identifiers[i] : i \in 1..Len(call.identifiers)}
       \ (IF call.since = NoDate
          THEN {call.identifiers[i] : i \in 1..Len(call.identifiers)}
          ELSE call.provided.changed)

\* C21: the incremental skip of update_records.  For an identifier that
\* has not changed since `since`, has_changed is all that happens: no
\* get_record, no record mutation, no update_sets.  Without `since`,
\* has_changed is never called and every (identifier, prefix) pair is
\* fetched once.  With no identifiers nothing is asked of the provider and
\* nothing committed.
C21_UnchangedSkipped ==
    RecordsUpdated =>
        /\ \A i \in 1..Len(ret.trace) :
              ret.trace[i][2] \in NotChanged
                 => ret.trace[i][1] = "has_changed"
        /\ \A i \in 1..Len(ret.trace) :
              ret.trace[i][1] \in {"Record.create_or_update",
                                   "Record.mark_as_deleted"}
                 => ret.trace[i][2] \notin NotChanged
        /\ call.since = NoDate =>
              /\ \A i \in 1..Len(ret.trace) :
                    ret.trace[i][1] # "has_changed"
              /\ \A i \in 1..Len(call.identifiers),
                    j \in 1..Len(call.prefixes) :
                    Times(ret.trace, <<"get_record", call.identifiers[i],
                                       call.prefixes[j]>>) = 1
        /\ call.identifiers = <<>> => ret.trace = <<>>

\* A run with `since` in which the first identifier has not changed, its
\* record would have been stored, and the second identifier is fetched.
C21_Witness ==
    /\ RecordsUpdated
    /\ ~call.dry_run
    /\ call.since # NoDate
    /\ Len(call.identifiers) = 2
    /\ call.identifiers[1] \in NotChanged
    /\ call.identifiers[2] \notin NotChanged
    /\ call.provided.get_record[<<call.identifiers[1], call.prefixes[1]>>]
         = Payload
    /\ ret.updated > 0

\* The places of a call of one name in what a run did.
Places(name) == {i \in 1..Len(ret.trace) : ret.trace[i][1] = name}

\* C22: update_records commits each record it stores.  In a live run every
\* Record.create_or_update is followed at once by a commit, and every
\* commit follows a Record.create_or_update: there are as many commits as
\* stored records, the number of the summary, and a pair whose fetch
\* failed or gave None adds none.
C22_CommitPerUpsert ==
    (RecordsUpdated /\ ~call.dry_run) =>
        /\ \A i \in Places("Record.create_or_update") :
              /\ i < Len(ret.trace)
              /\ ret.trace[i + 1][1] = "commit"
        /\ \A i \in Places("commit") :
              /\ i > 1
              /\ ret.trace[i - 1][1] = "Record.create_or_update"
        /\ Cardinality(Places("commit"))
             = Cardinality(Places("Record.create_or_update"))
        /\ Cardinality(Places("commit")) = ret.updated

\* A live run that stored a record, marked another deleted and failed to
\* fetch a third.
C22_Witness ==
    /\ RecordsUpdated
    /\ ~call.dry_run
    /\ Places("commit") # {}
    /\ Places("Record.mark_as_deleted") # {}
    /\ \E pair \in Fetched : call.provided.get_record[pair] = Crosswalk

\* The identifiers of a records run of which a pair was processed: they
\* were not skipped, and get_record did not raise for all their prefixes.
Handled ==
    {id \in {call.identifiers[i] : i \in 1..Len(call.identifiers)} \ NotChanged :
        \E j \in 1..Len(call.prefixes) :
            call.provided.get_record[<<id, call.prefixes[j]>>] # Crosswalk}

\* C23: update_records calls update_sets(provider, identifier, dry_run)
\* once for each identifier of which a pair was processed and for no
\* other, after all get_record calls for that identifier; when update_sets
\* fails, the failure is logged for the identifier, nothing is raised, and
\* the later identifiers still get their call.
C23_SetsOncePerHandled ==
    RecordsUpdated =>
        /\ ret.exc = NoExc
        /\ \A n \in 1..Len(call.identifiers) :
              /\ Times(ret.trace, <<"update_sets", call.identifiers[n],
                                    Flag(call.dry_run)>>)
                   = (IF call.identifiers[n] \in Handled THEN 1 ELSE 0)
              /\ Times(ret.trace, <<"update_sets", call.identifiers[n],
                                    Flag(~call.dry_run)>>) = 0
              /\ Times(ret.logged, <<"Failed to update item",
                                     call.identifiers[n], "">>)
                   = (IF /\ call.identifiers[n] \in Handled
                         /\ call.provided.get_sets.msg # ""
                      THEN 1 ELSE 0)
        /\ \A i \in Places("update_sets"), j \in Places("get_record") :
              ret.trace[j][2] = ret.trace[i][2] => j < i

\* A run in which the first fetch for the first identifier failed, and
\* update_sets was called for both identifiers and failed for both.
C23_Witness ==
    /\ RecordsUpdated
    /\ Len(call.identifiers) = 2
    /\ Len(call.prefixes) = 2
    /\ call.provided.get_sets.msg # ""
    /\ Handled = {call.identifiers[1], call.identifiers[2]}
    /\ call.provided.get_record[<<call.identifiers[1], call.prefixes[1]>>]
         = Crosswalk
    /\ Cardinality(Places("update_sets")) = 2

\* A live run of update_sets has ended without an error.
SetsUpdated ==
    call.fn = "update_sets" /\ ~call.dry_run /\ ret.exc = NoExc

\* The place of a set spec in the ascending order of the spec strings, and
\* the pairs of a spec and a spec below it in the hierarchy.
SpecRank(spec) ==
    CHOOSE i \in 1..Len(SetSpecNames) : SetSpecNames[i] = spec

Ancestry == {<<"s", "s:t">>, <<"s", "s:t:u">>, <<"s:t", "s:t:u">>}

\* C24: update_sets stores the sets in ascending order of their specs,
\* whatever the order in which the provider listed them: one
\* Set.create_or_update call for each listed pair, never a greater spec
\* before a smaller one, and so a spec's ancestor, when listed, before
\* the spec.
C24_SetsInSpecOrder ==
    SetsUpdated =>
        /\ \A spec \in {SetSpecNames[i] : i \in 1..Len(SetSpecNames)} :
              Times(ret.trace, <<"Set.create_or_update", spec, "">>)
                = Cardinality({n \in 1..Len(call.provided.value) :
                                  call.provided.value[n] = spec})
        /\ \A i, j \in Places("Set.create_or_update") :
              /\ i < j => SpecRank(ret.trace[i][2])
                            <= SpecRank(ret.trace[j][2])
              /\ <<ret.trace[i][2], ret.trace[j][2]>> \in Ancestry
                    => i < j

\* A live run for which the provider listed a spec before its ancestor.
C24_Witness ==
    /\ SetsUpdated
    /\ Len(call.provided.value) = 3
    /\ <<call.provided.value[3], call.provided.value[1]>> \in Ancestry
    /\ <<call.provided.value[3], call.provided.value[2]>> \in Ancestry
    /\ Cardinality(Places("Set.create_or_update")) = 3

\* The specs that get_sets gave to the run of update_sets.
GivenSpecs ==
    {call.provided.value[n] : n \in 1..Len(call.provided.value)}

\* C25: update_sets replaces the membership of the item.  A live run calls
\* item.clear_sets once, before every add_to_set, and add_to_set once for
\* each pair the provider listed; after it the item is in the listed sets
\* and in no other, whatever sets it was in before.
C25_MembershipReplaced ==
    SetsUpdated =>
        /\ Times(ret.trace, <<"item.clear_sets", call.identifier, "">>) = 1
        /\ \A i \in Places("item.clear_sets"),
              j \in Places("item.add_to_set") : i < j
        /\ \A spec \in {SetSpecNames[i] : i \in 1..Len(SetSpecNames)} :
              Times(ret.trace, <<"item.add_to_set", call.identifier, spec>>)
                = Cardinality({n \in 1..Len(call.provided.value) :
                                  call.provided.value[n] = spec})
        /\ Cardinality(Places("item.add_to_set"))
             = Len(call.provided.value)
        /\ items[call.identifier].sets = GivenSpecs

\* A live run for an item that was in a set the provider no longer lists,
\* and is put into another.
C25_Witness ==
    /\ SetsUpdated
    /\ call.before.items[call.identifier].sets # {}
    /\ call.before.items[call.identifier].sets \cap GivenSpecs = {}
    /\ GivenSpecs # {}
    /\ items[call.identifier].sets = GivenSpecs

\* The places of the mutations of a run: the mutating calls but commit.
Mutations ==
    {i \in 1..Len(ret.trace) : ret.trace[i][1] \in Mutating \ {"commit"}}

ChainRequests ==
    {MultiDict(<< <<"verb", Str(v)>>, <<"metadataPrefix", Str(m)>> >>
               \o u \o z)
        : v \in ListVerbs, m \in Prefixes,
          u \in Optional("until", {DayStr(0)}),
          z \in Optional("set", {Str("s")})}

\* The identifiers of the records of a response, in its order.
Page(records_) == [i \in 1..Len(records_) |-> records_[i].identifier]

\* The store is synchronized before the client begins.
SynchronizeFirst ==
    /\ pc = "idle"
    /\ call = NoCall
    /\ Synchronize

\* The client sends its first request.
Begin ==
    /\ call = NoCall
    /\ Receive(ChainRequests)

\* The client sends back the token of the last page, with the verb of its
\* first request.
Follow ==
    /\ call # NoCall
    /\ Replay({VerbOf(call.first)})

\* oai_view, lines 37-48, as in Respond; the client keeps the page.
Collect ==
    /\ pc = "handling"
    /\ response' = Answer(request, View(request))
    /\ issued' = IF response'.kind = "result" /\ response'.token # None
                    /\ response'.token # Str("")
                 THEN [token |-> response'.token, time |-> request.time]
                 ELSE NoToken
    /\ call' = IF request.replayed = NoDate
               THEN [fn |-> "listing", first |-> request.params,
                     started |-> request.time,
                     emitted |-> Page(response'.records),
                     failed |-> response'.kind # "result"]
               ELSE [call EXCEPT
                       !.emitted = @ \o Page(response'.records),
                       !.failed = @ \/ response'.kind # "result"]
    /\ request' = NoRequest
    /\ pc' = "idle"
    /\ UNCHANGED <<store, settings, clock, ret>>

NextChain ==
    \/ Tick
    \/ SynchronizeFirst
    \/ Begin
    \/ Follow
    \/ Collect

SpecChain == InitStore /\ [][NextChain]_vars

\* The client's listing selects records of the store, and the listing has
\* ended: the last page came without a token to send back.
Enumerating ==
    /\ call # NoCall
    /\ Selects(call.first)
    /\ Matching(call.first) # {}

ListingEnded == pc = "idle" /\ issued = NoToken

\* The pages hold records the listing selects, each once, in ascending
\* order of the identifiers; when the listing has ended, all of them.
Enumerated ==
    /\ ~call.failed
    /\ \A i \in 1..Len(call.emitted) :
          call.emitted[i] \in Matching(call.first)
    /\ \A i, j \in 1..Len(call.emitted) :
          i < j => Position(call.emitted[i]) < Position(call.emitted[j])
    /\ ListingEnded =>
          /\ {call.emitted[i] : i \in 1..Len(call.emitted)}
               = Matching(call.first)
          /\ response.token \in {None, Str("")}

\* C26 as stated: on a store that does not change, a listing followed
\* page by page through its tokens never fails and ends, after finitely
\* many pages, having returned every selected record once, in ascending
\* order of the identifiers.
C26_ChainEnumeratesAll == Enumerating => Enumerated

\* C26, amended: the listing is complete when it began in a later second
\* than the store's last synchronization (or the store was never
\* synchronized).  A token issued in the very second of the Datestamp has
\* expired when it is sent back.
C26_ChainEnumeratesAfterSync ==
    (Enumerating /\ call.started > datestamp) => Enumerated

\* A listing of three pages on a synchronized store has ended.
C26_Witness ==
    /\ Enumerating
    /\ datestamp # NoDatestamp
    /\ call.started > datestamp
    /\ ListingEnded
    /\ Len(call.emitted) = 3
    /\ settings.item_list_limit = 1
    /\ response.token = Str("")

(***************************************************************************)
(* SpecVerbs: requests of every verb, well-formed and not, against a store *)
(* of any kind.                                                            *)
(***************************************************************************)
VerbRequests ==
    {MultiDict(<< <<"verb", Str("Identify")>> >> \o z)
        : z \in Optional("set", {Str("s")})}
      \cup {NoParams,
            MultiDict(<< <<"verb", Str("Purge")>> >>),
            MultiDict(<< <<"verb", Str("Identify")>>,
                         <<"verb", Str("ListSets")>> >>)}
      \cup FormatRequests
      \cup ChainRequests
      \cup GetRecordRequests
      \cup TokenRequests

NextVerbs ==
    \/ Receive(VerbRequests)
    \/ Respond

SpecVerbs == InitFormats /\ [][NextVerbs]_vars

====
